---- MODULE Spec2Model ----
(***************************************************************************)
(* The local upkeep simulator: UpkeepRegistry (simulator/registry.ts) and  *)
(* the two job kinds it runs, the polling CustomLogicJob and the           *)
(* LogTriggerJob with its processed-log set (simulator job classes).       *)
(*                                                                         *)
(* JavaScript runs each callback to its next await without interruption,   *)
(* so every action below is one such run-to-completion segment: the call   *)
(* of a public method, a timer or listener callback up to its first await, *)
(* or the continuation after one awaited chain-client promise settles.     *)
(***************************************************************************)
EXTENDS Integers, FiniteSets, Sequences, TLC

\* ---------------------------------------------------------------- bounds
MaxJobs == 2        \* job objects constructed over the registry's lifetime
MaxBlock == 4       \* block heights the chain client may report: 0..MaxBlock
MaxTicks == 2       \* timer callbacks of one job that may be pending at once
MaxHandlers == 2    \* log callbacks of one job that may be pending at once
MaxDeliveries == 2  \* times the provider delivers one log to one job
MaxBlockEvents == 3  \* 'block' events the provider delivers to one block-event job

\* ---------------------------------------------------------------- values
Addr == {"0xA", "0xB"}
JobIds == 1..MaxJobs
None == 0
Blocks == 0..MaxBlock
Data == {"d1", "d2"}
NoData == "0x"
Events == {"0xAA-0", "0xBB-1", "0xCC-0"}   \* `${log.transactionHash}-${log.logIndex}`
NoLog == "-"
NoFilters == <<>>                \* logTopicFilters left out of the options

\* ethers.utils.id(signature): the hash of the signature's text, one topic per signature.
Id(sig) == <<"keccak256", sig>>

\* The logs the chain holds: log.address, log.topics and log.data of each.
LogAddress(e) == IF e = "0xCC-0" THEN "0xF" ELSE "0xE"
LogTopics(e) ==
    IF e = "0xAA-0" THEN <<Id("Ev(uint256)"), "0xT1">>
    ELSE IF e = "0xBB-1" THEN <<Id("Ev(uint256)"), "0xT2">>
    ELSE <<Id("Other()")>>
LogData(e) == IF e = "0xAA-0" THEN "0x01" ELSE "0x02"

\* ethers.utils.defaultAbiCoder.encode(['bytes32[]', 'bytes'], [topics, data])
Encode(topics, data) == <<"abi", "bytes32[]", Len(topics), topics, "bytes", data>>
TickSlots == 1..MaxTicks
HandlerSlots == 1..MaxHandlers

\* What the chain client can reject an awaited call with: ethers' error code
\* and whether the message contains 'checkLog is not a function'.
Errors == [code : {"INVALID_ARGUMENT", "CALL_EXCEPTION", "undefined"}, notAFunction : BOOLEAN]

\* The request bodies the registry is called with.
Options ==
    [upkeepContract : Addr, triggerType : {"custom", "other"},
     logEmitterAddress : {""}, logEventSignature : {""}, logTopicFilters : {NoFilters}]
    \cup
    [upkeepContract : Addr, triggerType : {"log"},
     logEmitterAddress : {"", "0xE"}, logEventSignature : {"", "Ev(uint256)"},
     logTopicFilters : {NoFilters}]

\* Log options that also give logTopicFilters: a filter on the first indexed argument.
FilterOptions ==
    [upkeepContract : {"0xA"}, triggerType : {"log"},
     logEmitterAddress : {"0xE"}, logEventSignature : {"Ev(uint256)"},
     logTopicFilters : {NoFilters, <<"0xT1">>}]

VARIABLES
    jobs,                \* UpkeepRegistry._jobs: address -> job object (None: no entry)
    nextJob,             \* the next job object `new` constructs
    kind,                \* class of each constructed job: "custom", "log" ("none": not constructed)
    target,              \* _options.upkeepContract of each constructed job
    \* CustomLogicJob
    isExecuting,         \* _isExecuting
    lastProcessedBlock,  \* _lastProcessedBlock
    intervalId,          \* _intervalId # null: the setInterval timer is live
    startPc,             \* where the async start() is: "idle", "getBlockNumber", "done", "rejected"
    tick,                \* the pending _tick() invocations: slot -> [pc, data]
    \* LogTriggerJob
    subscribed,          \* _onLogDetected is attached to the provider
    processedLogs,       \* _processedLogs
    handler,             \* the pending _onLogDetected() invocations: slot -> [pc, log, data, arg]:
                         \* the awaited call, the log handled, performData, the awaited call's argument
    eventFilter,         \* _eventFilter: [address, topics]
    logTopicFilters,     \* _options.logTopicFilters
    \* observation of the calls made (history, not program state)
    startCalls,          \* how many times start() was called on each job
    stopCalls,           \* how many times stop() has returned for each job
    lastCall,            \* the last registry call and its outcome
    live,                \* addresses registered successfully and not since unregistered successfully
    lastTick,            \* what the last timer callback of each job did: "none", "dropped", "admitted"
    lastHandler,         \* how the handler of each job that ended last ended: "none", "noAction",
                         \* "failed" (a call threw), "confirmed"
    delivered,           \* how many times each log was delivered to each job
    performCalls,        \* performUpkeep calls each log job made for each log
    startHeight,         \* the height start() stored in _lastProcessedBlock
    cycles,              \* what each CustomLogicJob's cycles did so far: the checkUpkeep answers
                         \* "no" and "yes" counted, the performUpkeep calls counted, and whether
                         \* an awaited call of a cycle has thrown
    checkedAt,           \* the values _lastProcessedBlock held when each CustomLogicJob called
                         \* checkUpkeep
    response,            \* the last HTTP response the simulator's server sent
    local,               \* the LocalProvider call in progress and how it ended
    automation,          \* a `new Automation(config)`: the config, the provider constructors it
                         \* called, and how it ended
    handled,             \* a call of ChainlinkProvider._handleContractError: the error, the
                         \* context, and the message of the Error it threw ("": not called yet)
    chainlink,           \* a call of ChainlinkProvider.createUpkeep: where it is, the contract
                         \* calls it has made and the confirmations it has got, in order, and
                         \* how it ended
    blockJob             \* a block-event CustomLogicJob (jobs.ts): its 'block' listener, its
                         \* _isExecuting, the 'block' events delivered to it, and where the
                         \* _onNewBlock invocation of each event is

regVars == <<jobs, nextJob, kind, target>>
customVars == <<isExecuting, lastProcessedBlock, intervalId, startPc, tick>>
logVars == <<subscribed, processedLogs, handler, eventFilter, logTopicFilters>>
cycleVars == <<startHeight, cycles, checkedAt>>
appVars == <<response, local, automation, handled, chainlink, blockJob>>
histVars == <<startCalls, stopCalls, lastCall, live, lastTick, lastHandler, delivered, performCalls, cycleVars, appVars>>
vars == <<regVars, customVars, logVars, histVars>>

IdleTick == [pc |-> "idle", data |-> NoData]
IdleHandler == [pc |-> "idle", log |-> NoLog, data |-> NoData, arg |-> <<>>]
NoOptions == [upkeepContract |-> "-", triggerType |-> "-", logEmitterAddress |-> "", logEventSignature |-> "",
              logTopicFilters |-> NoFilters]
NoFilter == [address |-> "", topics |-> <<>>]

NoCycles == [no |-> 0, yes |-> 0, executes |-> 0, failed |-> FALSE]
\* The JSON values a request body can hold in a field: a string, a number, or
\* nothing (the field is absent).
Undefined == [type |-> "undefined", str |-> "", num |-> 0]

Str(x) == [type |-> "string", str |-> x, num |-> 0]

Num(n) == [type |-> "number", str |-> "", num |-> n]

\* A request whose body is not a JSON object.
NotAnObject ==
    [object |-> FALSE, name |-> Undefined, upkeepContract |-> Undefined, triggerType |-> Undefined,
     gasLimit |-> Undefined, logEmitterAddress |-> Undefined, logEventSignature |-> Undefined]

\* No response sent yet; no LocalProvider call made yet.
NoResponse == [route |-> "none", status |-> 0, errors |-> <<>>]
IdleLocal == [pc |-> "idle", body |-> NotAnObject, sent |-> Undefined, upkeepId |-> "-",
              before |-> {}, roundTrip |-> FALSE]

\* null, as a config may hold it.
Null == [type |-> "null", str |-> "", num |-> 0]

\* No Automation object asked for.
NoAutomation == [pc |-> "none", mode |-> Undefined, chainId |-> 0, signer |-> "-",
                 calls |-> <<>>, provider |-> "-", thrown |-> ""]

\* No call of _handleContractError.
NotHandled == [error |-> Undefined, context |-> "-", thrown |-> ""]

\* No createUpkeep call of a ChainlinkProvider.
IdleChainlink == [pc |-> "idle", options |-> [initialFunds |-> "-", triggerType |-> "-"],
                  trace |-> <<>>, receipt |-> <<>>, upkeepId |-> "", thrown |-> ""]

\* No block-event CustomLogicJob has been constructed.
BlockEvents == 1..MaxBlockEvents

NoBlockJob == [listening |-> FALSE, isExecuting |-> FALSE, delivered |-> 0,
               invocation |-> [k \in BlockEvents |-> "none"]]

\* The state of the server and of the client library before any request.
InitApp ==
    /\ response = NoResponse
    /\ local = IdleLocal
    /\ automation = NoAutomation
    /\ handled = NotHandled
    /\ chainlink = IdleChainlink
    /\ blockJob = NoBlockJob

NoCall == [op |-> "none", addr |-> "-", options |-> NoOptions, result |-> "-",
           before |-> [a \in Addr |-> None],
           constructed |-> {}, started |-> {}, stopped |-> {}, retry |-> FALSE]

\* The record of one registry call: what was asked, what the registry held before,
\* the outcome, the jobs constructed, started and stopped by it, and whether it is
\* a retry: the call before it was a register of the same address that failed validation.
Call(op, a, o, res, c, st, sp) ==
    [op |-> op, addr |-> a, options |-> o, result |-> res, before |-> jobs,
     constructed |-> c, started |-> st, stopped |-> sp,
     retry |-> (lastCall.op = "register" /\ lastCall.addr = a /\ lastCall.result = "Validation")]

\* getRegisteredUpkeepsCount()
Count == Cardinality({a \in Addr : jobs[a] # None})

\* The lowest free slot for a new callback invocation (0: none is free).
FreeTick(j) ==
    IF \E s \in TickSlots : tick[j][s].pc = "idle"
    THEN CHOOSE s \in TickSlots : tick[j][s].pc = "idle" /\ \A t \in TickSlots : tick[j][t].pc = "idle" => s <= t
    ELSE 0

InFlightTicks(j) == {s \in TickSlots : tick[j][s].pc # "idle"}

\* ---------------------------------------------------------------- Init
\* The simulator after construction: an empty registry, no job.
InitSimulator ==
    /\ jobs = [a \in Addr |-> None]
    /\ nextJob = 1
    /\ kind = [j \in JobIds |-> "none"]
    /\ target = [j \in JobIds |-> "-"]
    /\ isExecuting = [j \in JobIds |-> FALSE]
    /\ lastProcessedBlock = [j \in JobIds |-> 0]
    /\ intervalId = [j \in JobIds |-> FALSE]
    /\ startPc = [j \in JobIds |-> "idle"]
    /\ tick = [j \in JobIds |-> [s \in TickSlots |-> IdleTick]]
    /\ subscribed = [j \in JobIds |-> FALSE]
    /\ processedLogs = [j \in JobIds |-> {}]
    /\ handler = [j \in JobIds |-> [s \in HandlerSlots |-> IdleHandler]]
    /\ startCalls = [j \in JobIds |-> 0]
    /\ stopCalls = [j \in JobIds |-> 0]
    /\ lastCall = NoCall
    /\ live = {}
    /\ lastTick = [j \in JobIds |-> "none"]
    /\ lastHandler = [j \in JobIds |-> "none"]
    /\ delivered = [j \in JobIds |-> [e \in Events |-> 0]]
    /\ performCalls = [j \in JobIds |-> [e \in Events |-> 0]]
    /\ eventFilter = [j \in JobIds |-> NoFilter]
    /\ logTopicFilters = [j \in JobIds |-> NoFilters]
    /\ startHeight = [j \in JobIds |-> 0]
    /\ cycles = [j \in JobIds |-> NoCycles]
    /\ checkedAt = [j \in JobIds |-> {}]

Init == InitSimulator /\ InitApp

\* ---------------------------------------------------------------- job lifecycle
\* CustomLogicJob.start() up to its first await: getBlockNumber() is requested.
CustomStart(j) ==
    /\ startPc' = [startPc EXCEPT ![j] = "getBlockNumber"]
    /\ UNCHANGED <<isExecuting, lastProcessedBlock, intervalId, tick>>

\* CustomLogicJob.stop(): clears the timer if one is set.
CustomStop(j) ==
    /\ intervalId' = [intervalId EXCEPT ![j] = FALSE]
    /\ UNCHANGED <<isExecuting, lastProcessedBlock, startPc, tick>>

\* new LogTriggerJob(options): the filter holds the emitter address and, as its
\* only topic, the hash of the event signature.
EventFilter(o) == [address |-> o.logEmitterAddress, topics |-> <<Id(o.logEventSignature)>>]

LogConstruct(j, o) ==
    /\ eventFilter' = [eventFilter EXCEPT ![j] = EventFilter(o)]
    /\ logTopicFilters' = [logTopicFilters EXCEPT ![j] = o.logTopicFilters]

\* LogTriggerJob.start(): provider.on(filter, _onLogDetected).
LogStart(j) ==
    /\ subscribed' = [subscribed EXCEPT ![j] = TRUE]
    /\ UNCHANGED <<processedLogs, handler>>

\* LogTriggerJob.stop(): provider.off(filter, _onLogDetected).
LogStop(j) ==
    /\ subscribed' = [subscribed EXCEPT ![j] = FALSE]
    /\ UNCHANGED <<processedLogs, handler, eventFilter, logTopicFilters>>

\* ---------------------------------------------------------------- registry
\* registerUpkeep with a rollback in its error path that deletes the address's
\* entry whether or not the failed call stored it.
RegisterFailsDeletesEntry(o, err) ==
    /\ lastCall' = Call("register", o.upkeepContract, o, err, {}, {}, {})
    /\ jobs' = [jobs EXCEPT ![o.upkeepContract] = None]
    /\ UNCHANGED <<nextJob, kind, target, customVars, logVars>>
    /\ UNCHANGED <<startCalls, stopCalls, live, lastTick, lastHandler, delivered, performCalls, cycleVars>>

\* registerUpkeep throws err: every throw comes before this._jobs.set.
RegisterFails(o, err) ==
    /\ lastCall' = Call("register", o.upkeepContract, o, err, {}, {}, {})
    /\ UNCHANGED <<regVars, customVars, logVars>>
    /\ UNCHANGED <<startCalls, stopCalls, live, lastTick, lastHandler, delivered, performCalls, cycleVars>>

\* new CustomLogicJob / new LogTriggerJob, this._jobs.set(address, job), job.start()
RegisterStores(o, k) ==
    LET j == nextJob
        a == o.upkeepContract IN
    /\ nextJob <= MaxJobs
    /\ nextJob' = nextJob + 1
    /\ kind' = [kind EXCEPT ![j] = k]
    /\ target' = [target EXCEPT ![j] = a]
    /\ jobs' = [jobs EXCEPT ![a] = j]
    /\ IF k = "custom"
       THEN CustomStart(j) /\ UNCHANGED logVars
       ELSE LogConstruct(j, o) /\ LogStart(j) /\ UNCHANGED customVars
    /\ startCalls' = [startCalls EXCEPT ![j] = @ + 1]
    /\ live' = live \cup {a}
    /\ lastCall' = Call("register", a, o, "ok", {j}, {j}, {})
    /\ UNCHANGED <<stopCalls, lastTick, lastHandler, delivered, performCalls, cycleVars>>

\* registerUpkeep without the `_jobs.has(contractAddress)` check: a second register
\* of an address overwrites the entry.
RegisterUpkeepNoDuplicateCheck(o) ==
    IF o.triggerType = "custom"
    THEN RegisterStores(o, "custom")
    ELSE IF o.triggerType = "log"
    THEN IF o.logEmitterAddress = "" \/ o.logEventSignature = ""
         THEN RegisterFails(o, "Validation")
         ELSE RegisterStores(o, "log")
    ELSE RegisterFails(o, "Unsupported")

\* registerUpkeep without the check of the log options: the LogTriggerJob is
\* constructed, stored and started whatever the options hold.
RegisterUpkeepNoValidation(o) ==
    IF jobs[o.upkeepContract] # None
    THEN RegisterFails(o, "DuplicateJob")
    ELSE IF o.triggerType = "custom"
    THEN RegisterStores(o, "custom")
    ELSE IF o.triggerType = "log"
    THEN RegisterStores(o, "log")
    ELSE RegisterFails(o, "Unsupported")

\* UpkeepRegistry.registerUpkeep(options)
RegisterUpkeep(o) ==
    LET a == o.upkeepContract IN
    IF jobs[a] # None
    THEN RegisterFails(o, "DuplicateJob")
    ELSE IF o.triggerType = "custom"
    THEN RegisterStores(o, "custom")
    ELSE IF o.triggerType = "log"
    THEN IF o.logEmitterAddress = "" \/ o.logEventSignature = ""
         THEN RegisterFails(o, "Validation")
         ELSE RegisterStores(o, "log")
    ELSE RegisterFails(o, "Unsupported")

\* What unregisterUpkeep does for a registered address.
UnregisterStops(a) ==
    LET j == jobs[a] IN
    /\ IF kind[j] = "custom"
       THEN CustomStop(j) /\ UNCHANGED logVars
       ELSE LogStop(j) /\ UNCHANGED customVars
    /\ jobs' = [jobs EXCEPT ![a] = None]
    /\ stopCalls' = [stopCalls EXCEPT ![j] = @ + 1]
    /\ live' = live \ {a}
    /\ lastCall' = Call("unregister", a, NoOptions, "ok", {}, {}, {j})
    /\ UNCHANGED <<nextJob, kind, target, startCalls, lastTick, lastHandler, delivered, performCalls, cycleVars>>

\* unregisterUpkeep that returns normally, without an error, when the address has no job.
UnregisterUpkeepSilent(a) ==
    IF jobs[a] # None
    THEN UnregisterStops(a)
    ELSE /\ lastCall' = Call("unregister", a, NoOptions, "ok", {}, {}, {})
         /\ UNCHANGED <<regVars, customVars, logVars>>
         /\ UNCHANGED <<startCalls, stopCalls, live, lastTick, lastHandler, delivered, performCalls, cycleVars>>

\* unregisterUpkeep that stops the job and forgets `_jobs.delete(contractAddress)`.
UnregisterUpkeepKeepsEntry(a) ==
    LET j == jobs[a] IN
    IF j # None
    THEN /\ stopCalls[j] < MaxJobs
         /\ IF kind[j] = "custom"
            THEN CustomStop(j) /\ UNCHANGED logVars
            ELSE LogStop(j) /\ UNCHANGED customVars
         /\ stopCalls' = [stopCalls EXCEPT ![j] = @ + 1]
         /\ live' = live \ {a}
         /\ lastCall' = Call("unregister", a, NoOptions, "ok", {}, {}, {j})
         /\ UNCHANGED <<regVars, startCalls, lastTick, lastHandler, delivered, performCalls, cycleVars>>
    ELSE /\ lastCall' = Call("unregister", a, NoOptions, "NotFound", {}, {}, {})
         /\ UNCHANGED <<regVars, customVars, logVars>>
         /\ UNCHANGED <<startCalls, stopCalls, live, lastTick, lastHandler, delivered, performCalls, cycleVars>>

\* UpkeepRegistry.unregisterUpkeep(contractAddress)
UnregisterUpkeep(a) ==
    LET j == jobs[a] IN
    IF j # None
    THEN UnregisterStops(a)
    ELSE /\ lastCall' = Call("unregister", a, NoOptions, "NotFound", {}, {}, {})
         /\ UNCHANGED <<regVars, customVars, logVars>>
         /\ UNCHANGED <<startCalls, stopCalls, live, lastTick, lastHandler, delivered, performCalls, cycleVars>>

\* ---------------------------------------------------------------- CustomLogicJob
\* start() that fetches the height but does not store it: _lastProcessedBlock
\* keeps its initial 0 when the timer is set.
StartResolveDiscardsHeight(j, b) ==
    /\ startPc[j] = "getBlockNumber"
    /\ startPc' = [startPc EXCEPT ![j] = "done"]
    /\ intervalId' = [intervalId EXCEPT ![j] = TRUE]
    /\ startHeight' = [startHeight EXCEPT ![j] = b]
    /\ UNCHANGED <<isExecuting, lastProcessedBlock, tick>>
    /\ UNCHANGED <<regVars, logVars>>
    /\ UNCHANGED <<startCalls, stopCalls, lastCall, live, lastTick, lastHandler, delivered, performCalls, cycles, checkedAt, appVars>>

\* start() resumes: _lastProcessedBlock = <height>; _intervalId = setInterval(...)
StartResolve(j, b) ==
    /\ startPc[j] = "getBlockNumber"
    /\ startPc' = [startPc EXCEPT ![j] = "done"]
    /\ lastProcessedBlock' = [lastProcessedBlock EXCEPT ![j] = b]
    /\ intervalId' = [intervalId EXCEPT ![j] = TRUE]
    /\ startHeight' = [startHeight EXCEPT ![j] = b]
    /\ UNCHANGED <<isExecuting, tick>>
    /\ UNCHANGED <<regVars, logVars>>
    /\ UNCHANGED <<startCalls, stopCalls, lastCall, live, lastTick, lastHandler, delivered, performCalls, cycles, checkedAt, appVars>>

\* start()'s getBlockNumber() rejects: start() ends there, no timer is set.
StartReject(j) ==
    /\ startPc[j] = "getBlockNumber"
    /\ startPc' = [startPc EXCEPT ![j] = "rejected"]
    /\ UNCHANGED <<isExecuting, lastProcessedBlock, intervalId, tick>>
    /\ UNCHANGED <<regVars, logVars, histVars>>

\* The `finally` of _tick(): the invocation in slot s ends.
TickEnds(j, s) ==
    /\ isExecuting' = [isExecuting EXCEPT ![j] = FALSE]
    /\ tick' = [tick EXCEPT ![j][s] = IdleTick]

\* _tick() without the `if (this._isExecuting) return` guard.
TickNoGuard(j) ==
    /\ intervalId[j]
    /\ FreeTick(j) # 0
    /\ isExecuting' = [isExecuting EXCEPT ![j] = TRUE]
    /\ tick' = [tick EXCEPT ![j][FreeTick(j)] = [pc |-> "getBlockNumber", data |-> NoData]]
    /\ lastTick' = [lastTick EXCEPT ![j] = "admitted"]
    /\ UNCHANGED <<lastProcessedBlock, intervalId, startPc>>
    /\ UNCHANGED <<regVars, logVars>>
    /\ UNCHANGED <<startCalls, stopCalls, lastCall, live, lastHandler, delivered, performCalls, cycleVars, appVars>>

\* _tick() with one executing flag for the whole process: a tick is turned away
\* while a cycle or a handler of any job is pending.
TickGlobalLock(j) ==
    /\ intervalId[j]
    /\ IF \E i \in JobIds : isExecuting[i] \/ \E s \in HandlerSlots : handler[i][s].pc # "idle"
       THEN /\ lastTick' = [lastTick EXCEPT ![j] = "dropped"]
            /\ UNCHANGED customVars
       ELSE /\ FreeTick(j) # 0
            /\ isExecuting' = [isExecuting EXCEPT ![j] = TRUE]
            /\ tick' = [tick EXCEPT ![j][FreeTick(j)] = [pc |-> "getBlockNumber", data |-> NoData]]
            /\ lastTick' = [lastTick EXCEPT ![j] = "admitted"]
            /\ UNCHANGED <<lastProcessedBlock, intervalId, startPc>>
    /\ UNCHANGED <<regVars, logVars>>
    /\ UNCHANGED <<startCalls, stopCalls, lastCall, live, lastHandler, delivered, performCalls, cycleVars, appVars>>

\* _tick() whose early return clears _isExecuting: a tick that finds a cycle
\* running unlocks the job for the next tick.
TickDropClearsFlag(j) ==
    /\ intervalId[j]
    /\ IF isExecuting[j]
       THEN /\ lastTick' = [lastTick EXCEPT ![j] = "dropped"]
            /\ isExecuting' = [isExecuting EXCEPT ![j] = FALSE]
            /\ UNCHANGED <<lastProcessedBlock, intervalId, startPc, tick>>
       ELSE /\ FreeTick(j) # 0
            /\ isExecuting' = [isExecuting EXCEPT ![j] = TRUE]
            /\ tick' = [tick EXCEPT ![j][FreeTick(j)] = [pc |-> "getBlockNumber", data |-> NoData]]
            /\ lastTick' = [lastTick EXCEPT ![j] = "admitted"]
            /\ UNCHANGED <<lastProcessedBlock, intervalId, startPc>>
    /\ UNCHANGED <<regVars, logVars>>
    /\ UNCHANGED <<startCalls, stopCalls, lastCall, live, lastHandler, delivered, performCalls, cycleVars, appVars>>

\* The timer fires: _tick() up to its first await.
Tick(j) ==
    /\ intervalId[j]
    /\ IF isExecuting[j]
       THEN /\ lastTick' = [lastTick EXCEPT ![j] = "dropped"]
            /\ UNCHANGED customVars
       ELSE /\ FreeTick(j) # 0
            /\ isExecuting' = [isExecuting EXCEPT ![j] = TRUE]
            /\ tick' = [tick EXCEPT ![j][FreeTick(j)] = [pc |-> "getBlockNumber", data |-> NoData]]
            /\ lastTick' = [lastTick EXCEPT ![j] = "admitted"]
            /\ UNCHANGED <<lastProcessedBlock, intervalId, startPc>>
    /\ UNCHANGED <<regVars, logVars>>
    /\ UNCHANGED <<startCalls, stopCalls, lastCall, live, lastHandler, delivered, performCalls, cycleVars, appVars>>

\* _tick() without the `currentBlock <= this._lastProcessedBlock` return: every
\* fetched height is stored and checked.
TickGetBlockNumberResolveNoCompare(j, s, b) ==
    /\ tick[j][s].pc = "getBlockNumber"
    /\ lastProcessedBlock' = [lastProcessedBlock EXCEPT ![j] = b]
    /\ tick' = [tick EXCEPT ![j][s].pc = "checkUpkeep"]
    /\ checkedAt' = [checkedAt EXCEPT ![j] = @ \cup {lastProcessedBlock'[j]}]
    /\ UNCHANGED <<isExecuting, intervalId, startPc>>
    /\ UNCHANGED <<regVars, logVars>>
    /\ UNCHANGED <<startCalls, stopCalls, lastCall, live, lastTick, lastHandler, delivered, performCalls, startHeight, cycles, appVars>>

\* _tick() that compares with `<` in place of `<=`: a height equal to
\* _lastProcessedBlock is checked again.
TickGetBlockNumberResolveStrict(j, s, b) ==
    /\ tick[j][s].pc = "getBlockNumber"
    /\ IF b < lastProcessedBlock[j]
       THEN TickEnds(j, s) /\ UNCHANGED <<lastProcessedBlock, checkedAt, appVars>>
       ELSE /\ lastProcessedBlock' = [lastProcessedBlock EXCEPT ![j] = b]
            /\ tick' = [tick EXCEPT ![j][s].pc = "checkUpkeep"]
            /\ checkedAt' = [checkedAt EXCEPT ![j] = @ \cup {lastProcessedBlock'[j]}]
            /\ UNCHANGED isExecuting
    /\ UNCHANGED <<intervalId, startPc>>
    /\ UNCHANGED <<regVars, logVars>>
    /\ UNCHANGED <<startCalls, stopCalls, lastCall, live, lastTick, lastHandler, delivered, performCalls, startHeight, cycles, appVars>>

\* _tick() without `this._lastProcessedBlock = currentBlock`: the check is made
\* with the height the job held before.
TickGetBlockNumberResolveNoAdvance(j, s, b) ==
    /\ tick[j][s].pc = "getBlockNumber"
    /\ IF b <= lastProcessedBlock[j]
       THEN TickEnds(j, s) /\ UNCHANGED <<lastProcessedBlock, checkedAt, appVars>>
       ELSE /\ UNCHANGED lastProcessedBlock
            /\ tick' = [tick EXCEPT ![j][s].pc = "checkUpkeep"]
            /\ checkedAt' = [checkedAt EXCEPT ![j] = @ \cup {lastProcessedBlock'[j]}]
            /\ UNCHANGED isExecuting
    /\ UNCHANGED <<intervalId, startPc>>
    /\ UNCHANGED <<regVars, logVars>>
    /\ UNCHANGED <<startCalls, stopCalls, lastCall, live, lastTick, lastHandler, delivered, performCalls, startHeight, cycles, appVars>>

\* _tick() resumes with the current height b.
TickGetBlockNumberResolve(j, s, b) ==
    /\ tick[j][s].pc = "getBlockNumber"
    /\ IF b <= lastProcessedBlock[j]
       THEN TickEnds(j, s) /\ UNCHANGED <<lastProcessedBlock, checkedAt, appVars>>
       ELSE /\ lastProcessedBlock' = [lastProcessedBlock EXCEPT ![j] = b]
            /\ tick' = [tick EXCEPT ![j][s].pc = "checkUpkeep"]
            /\ checkedAt' = [checkedAt EXCEPT ![j] = @ \cup {lastProcessedBlock'[j]}]
            /\ UNCHANGED isExecuting
    /\ UNCHANGED <<intervalId, startPc>>
    /\ UNCHANGED <<regVars, logVars>>
    /\ UNCHANGED <<startCalls, stopCalls, lastCall, live, lastTick, lastHandler, delivered, performCalls, startHeight, cycles, appVars>>

\* _tick() that calls performUpkeep with '0x' in place of the performData
\* checkUpkeep returned.
TickCheckUpkeepResolveDropsData(j, s, upkeepNeeded, performData) ==
    /\ tick[j][s].pc = "checkUpkeep"
    /\ IF upkeepNeeded
       THEN /\ tick' = [tick EXCEPT ![j][s] = [pc |-> "performUpkeep", data |-> NoData]]
            /\ cycles' = [cycles EXCEPT ![j].yes = @ + 1, ![j].executes = @ + 1]
            /\ UNCHANGED isExecuting
       ELSE /\ TickEnds(j, s)
            /\ cycles' = [cycles EXCEPT ![j].no = @ + 1]
    /\ UNCHANGED <<lastProcessedBlock, intervalId, startPc>>
    /\ UNCHANGED <<regVars, logVars>>
    /\ UNCHANGED <<startCalls, stopCalls, lastCall, live, lastTick, lastHandler, delivered, performCalls, startHeight, checkedAt, appVars>>

\* _tick() resumes with checkUpkeep's answer.
TickCheckUpkeepResolve(j, s, upkeepNeeded, performData) ==
    /\ tick[j][s].pc = "checkUpkeep"
    /\ IF upkeepNeeded
       THEN /\ tick' = [tick EXCEPT ![j][s] = [pc |-> "performUpkeep", data |-> performData]]
            /\ cycles' = [cycles EXCEPT ![j].yes = @ + 1, ![j].executes = @ + 1]
            /\ UNCHANGED isExecuting
       ELSE /\ TickEnds(j, s)
            /\ cycles' = [cycles EXCEPT ![j].no = @ + 1]
    /\ UNCHANGED <<lastProcessedBlock, intervalId, startPc>>
    /\ UNCHANGED <<regVars, logVars>>
    /\ UNCHANGED <<startCalls, stopCalls, lastCall, live, lastTick, lastHandler, delivered, performCalls, startHeight, checkedAt, appVars>>

\* performUpkeep(performData) returned the submitted transaction: tx.wait() is awaited.
TickPerformUpkeepResolve(j, s) ==
    /\ tick[j][s].pc = "performUpkeep"
    /\ tick' = [tick EXCEPT ![j][s].pc = "wait"]
    /\ UNCHANGED <<isExecuting, lastProcessedBlock, intervalId, startPc>>
    /\ UNCHANGED <<regVars, logVars, histVars>>

\* _tick() that gives up after the confirmation when stop() has cleared the timer:
\* the cycle's end is never reached.
TickWaitResolveUnlessStopped(j, s) ==
    /\ tick[j][s].pc = "wait"
    /\ intervalId[j]
    /\ TickEnds(j, s)
    /\ UNCHANGED <<lastProcessedBlock, intervalId, startPc>>
    /\ UNCHANGED <<regVars, logVars, histVars>>

\* tx.wait() returned the receipt: the cycle ends.
TickWaitResolve(j, s) ==
    /\ tick[j][s].pc = "wait"
    /\ TickEnds(j, s)
    /\ UNCHANGED <<lastProcessedBlock, intervalId, startPc>>
    /\ UNCHANGED <<regVars, logVars, histVars>>

\* _tick() without the `finally`: a call that throws leaves _isExecuting set.
TickRejectKeepsFlag(j, s) ==
    /\ tick[j][s].pc # "idle"
    /\ tick' = [tick EXCEPT ![j][s] = IdleTick]
    /\ cycles' = [cycles EXCEPT ![j].failed = TRUE]
    /\ UNCHANGED <<isExecuting, lastProcessedBlock, intervalId, startPc>>
    /\ UNCHANGED <<regVars, logVars>>
    /\ UNCHANGED <<startCalls, stopCalls, lastCall, live, lastTick, lastHandler, delivered, performCalls, startHeight, checkedAt, appVars>>

\* _tick() whose catch takes _lastProcessedBlock back by one when a call after
\* getBlockNumber() threw, so that the height is tried again.
TickRejectRollsBack(j, s) ==
    /\ tick[j][s].pc # "idle"
    /\ TickEnds(j, s)
    /\ cycles' = [cycles EXCEPT ![j].failed = TRUE]
    /\ lastProcessedBlock' = [lastProcessedBlock EXCEPT ![j] =
            IF tick[j][s].pc # "getBlockNumber" /\ @ > 0 THEN @ - 1 ELSE @]
    /\ UNCHANGED <<intervalId, startPc>>
    /\ UNCHANGED <<regVars, logVars>>
    /\ UNCHANGED <<startCalls, stopCalls, lastCall, live, lastTick, lastHandler, delivered, performCalls, startHeight, checkedAt, appVars>>

\* Any awaited call of _tick() rejects: catch logs, finally ends the cycle.
TickReject(j, s) ==
    /\ tick[j][s].pc # "idle"
    /\ TickEnds(j, s)
    /\ cycles' = [cycles EXCEPT ![j].failed = TRUE]
    /\ UNCHANGED <<lastProcessedBlock, intervalId, startPc>>
    /\ UNCHANGED <<regVars, logVars>>
    /\ UNCHANGED <<startCalls, stopCalls, lastCall, live, lastTick, lastHandler, delivered, performCalls, startHeight, checkedAt, appVars>>

\* ---------------------------------------------------------------- LogTriggerJob
FreeHandler(j) ==
    IF \E s \in HandlerSlots : handler[j][s].pc = "idle"
    THEN CHOOSE s \in HandlerSlots :
            handler[j][s].pc = "idle" /\ \A t \in HandlerSlots : handler[j][t].pc = "idle" => s <= t
    ELSE 0

InFlightHandlers(j) == {s \in HandlerSlots : handler[j][s].pc # "idle"}

\* The struct checkLog is called with, built from the log (the block's timestamp left out).
LogStruct(e) == <<"Log", e, LogAddress(e), LogTopics(e), LogData(e)>>

\* The payload of the fallback checkUpkeep call.
CheckData(e) == Encode(LogTopics(e), LogData(e))

\* code === 'INVALID_ARGUMENT' || msg.includes('checkLog is not a function')
IsFallback(err) == err.code = "INVALID_ARGUMENT" \/ err.notAFunction

\* The outer catch (or the normal end) of _onLogDetected: the invocation in slot s ends.
HandlerEnds(j, s) ==
    handler' = [handler EXCEPT ![j][s] = IdleHandler]

\* The provider's test of a log against a filter: the same address, and every
\* topic the filter gives is the log's topic at that position.
Matches(f, e) ==
    /\ f.address = LogAddress(e)
    /\ Len(f.topics) <= Len(LogTopics(e))
    /\ \A i \in 1..Len(f.topics) : f.topics[i] = LogTopics(e)[i]

\* _onLogDetected without the `_processedLogs.has(logId)` return: every delivered
\* log is handled.
DeliverLogNoDedup(j, e) ==
    /\ kind[j] = "log"
    /\ subscribed[j]
    /\ Matches(eventFilter[j], e)
    /\ delivered[j][e] < MaxDeliveries
    /\ delivered' = [delivered EXCEPT ![j][e] = @ + 1]
    /\ FreeHandler(j) # 0
    /\ handler' = [handler EXCEPT ![j][FreeHandler(j)] =
                      [pc |-> "getBlock", log |-> e, data |-> NoData, arg |-> <<>>]]
    /\ UNCHANGED <<subscribed, processedLogs, eventFilter, logTopicFilters>>
    /\ UNCHANGED <<regVars, customVars>>
    /\ UNCHANGED <<startCalls, stopCalls, lastCall, live, lastTick, lastHandler, performCalls, cycleVars, appVars>>

\* _onLogDetected with an executing lock like _tick()'s: a log delivered while
\* another handler of the job is pending is turned away.
DeliverLogWhileBusyDropped(j, e) ==
    /\ kind[j] = "log"
    /\ subscribed[j]
    /\ Matches(eventFilter[j], e)
    /\ delivered[j][e] < MaxDeliveries
    /\ delivered' = [delivered EXCEPT ![j][e] = @ + 1]
    /\ IF e \in processedLogs[j] \/ InFlightHandlers(j) # {}
       THEN UNCHANGED handler
       ELSE /\ FreeHandler(j) # 0
            /\ handler' = [handler EXCEPT ![j][FreeHandler(j)] =
                              [pc |-> "getBlock", log |-> e, data |-> NoData, arg |-> <<>>]]
    /\ UNCHANGED <<subscribed, processedLogs, eventFilter, logTopicFilters>>
    /\ UNCHANGED <<regVars, customVars>>
    /\ UNCHANGED <<startCalls, stopCalls, lastCall, live, lastTick, lastHandler, performCalls, cycleVars, appVars>>

\* The provider delivers log e to the job's listener: _onLogDetected up to its first await.
DeliverLog(j, e) ==
    /\ kind[j] = "log"
    /\ subscribed[j]
    /\ Matches(eventFilter[j], e)
    /\ delivered[j][e] < MaxDeliveries
    /\ delivered' = [delivered EXCEPT ![j][e] = @ + 1]
    /\ IF e \in processedLogs[j]
       THEN UNCHANGED handler
       ELSE /\ FreeHandler(j) # 0
            /\ handler' = [handler EXCEPT ![j][FreeHandler(j)] =
                              [pc |-> "getBlock", log |-> e, data |-> NoData, arg |-> <<>>]]
    /\ UNCHANGED <<subscribed, processedLogs, eventFilter, logTopicFilters>>
    /\ UNCHANGED <<regVars, customVars>>
    /\ UNCHANGED <<startCalls, stopCalls, lastCall, live, lastTick, lastHandler, performCalls, cycleVars, appVars>>

\* _onLogDetected that remembers the convention: once a log of the job has been
\* processed through the fallback, checkLog is skipped and checkUpkeep is called.
HandlerGetBlockResolveSkipsProbe(j, s) ==
    /\ handler[j][s].pc = "getBlock"
    /\ IF processedLogs[j] # {}
       THEN handler' = [handler EXCEPT ![j][s].pc = "checkUpkeep",
                                       ![j][s].arg = CheckData(handler[j][s].log)]
       ELSE handler' = [handler EXCEPT ![j][s].pc = "checkLog",
                                       ![j][s].arg = LogStruct(handler[j][s].log)]
    /\ UNCHANGED <<subscribed, processedLogs, eventFilter, logTopicFilters>>
    /\ UNCHANGED <<regVars, customVars, histVars>>

\* getBlock() returned the block: the log struct is built and checkLog is called.
HandlerGetBlockResolve(j, s) ==
    /\ handler[j][s].pc = "getBlock"
    /\ handler' = [handler EXCEPT ![j][s].pc = "checkLog",
                                   ![j][s].arg = LogStruct(handler[j][s].log)]
    /\ UNCHANGED <<subscribed, processedLogs, eventFilter, logTopicFilters>>
    /\ UNCHANGED <<regVars, customVars, histVars>>

\* The inner catch with a fallback payload that encodes the log's data only.
HandlerProbeRejectDataOnly(j, s, err) ==
    /\ handler[j][s].pc \in {"getBlock", "checkLog"}
    /\ IF IsFallback(err)
       THEN handler' = [handler EXCEPT ![j][s].pc = "checkUpkeep",
                                       ![j][s].arg = Encode(<<>>, LogData(handler[j][s].log))]
       ELSE HandlerEnds(j, s)
    /\ lastHandler' = [lastHandler EXCEPT ![j] = IF IsFallback(err) THEN @ ELSE "failed"]
    /\ UNCHANGED <<subscribed, processedLogs, eventFilter, logTopicFilters>>
    /\ UNCHANGED <<regVars, customVars>>
    /\ UNCHANGED <<startCalls, stopCalls, lastCall, live, lastTick, delivered, performCalls, cycleVars, appVars>>

\* The inner catch without the test of the error: every error falls back to checkUpkeep.
HandlerProbeRejectAlwaysFallback(j, s, err) ==
    /\ handler[j][s].pc \in {"getBlock", "checkLog"}
    /\ handler' = [handler EXCEPT ![j][s].pc = "checkUpkeep",
                                   ![j][s].arg = CheckData(handler[j][s].log)]
    /\ UNCHANGED <<subscribed, processedLogs, eventFilter, logTopicFilters>>
    /\ UNCHANGED <<regVars, customVars, histVars>>

\* The inner catch: getBlock() or checkLog() threw err. A fallback error makes the
\* handler call checkUpkeep(checkData); any other error is thrown on to the outer catch.
HandlerProbeReject(j, s, err) ==
    /\ handler[j][s].pc \in {"getBlock", "checkLog"}
    /\ IF IsFallback(err)
       THEN handler' = [handler EXCEPT ![j][s].pc = "checkUpkeep",
                                       ![j][s].arg = CheckData(handler[j][s].log)]
       ELSE HandlerEnds(j, s)
    /\ lastHandler' = [lastHandler EXCEPT ![j] = IF IsFallback(err) THEN @ ELSE "failed"]
    /\ UNCHANGED <<subscribed, processedLogs, eventFilter, logTopicFilters>>
    /\ UNCHANGED <<regVars, customVars>>
    /\ UNCHANGED <<startCalls, stopCalls, lastCall, live, lastTick, delivered, performCalls, cycleVars, appVars>>

\* if (upkeepNeeded) performUpkeep(performData, {gasLimit}) is called, else the handler ends.
HandlerDecide(j, s, upkeepNeeded, performData) ==
    IF upkeepNeeded
    THEN /\ handler' = [handler EXCEPT ![j][s] =
                           [pc |-> "performUpkeep", log |-> @.log, data |-> performData,
                            arg |-> <<performData>>]]
         /\ performCalls' = [performCalls EXCEPT ![j][handler[j][s].log] = @ + 1]
         /\ UNCHANGED lastHandler
    ELSE /\ HandlerEnds(j, s)
         /\ lastHandler' = [lastHandler EXCEPT ![j] = "noAction"]
         /\ UNCHANGED performCalls

\* checkLog() returned (upkeepNeeded, performData).
HandlerCheckLogResolve(j, s, upkeepNeeded, performData) ==
    /\ handler[j][s].pc = "checkLog"
    /\ HandlerDecide(j, s, upkeepNeeded, performData)
    /\ UNCHANGED <<subscribed, processedLogs, eventFilter, logTopicFilters>>
    /\ UNCHANGED <<regVars, customVars>>
    /\ UNCHANGED <<startCalls, stopCalls, lastCall, live, lastTick, delivered, cycleVars, appVars>>

\* The fallback checkUpkeep() returned (upkeepNeeded, performData).
HandlerCheckUpkeepResolve(j, s, upkeepNeeded, performData) ==
    /\ handler[j][s].pc = "checkUpkeep"
    /\ HandlerDecide(j, s, upkeepNeeded, performData)
    /\ UNCHANGED <<subscribed, processedLogs, eventFilter, logTopicFilters>>
    /\ UNCHANGED <<regVars, customVars>>
    /\ UNCHANGED <<startCalls, stopCalls, lastCall, live, lastTick, delivered, cycleVars, appVars>>

\* performUpkeep() returned the submitted transaction: tx.wait() is awaited.
HandlerPerformUpkeepResolve(j, s) ==
    /\ handler[j][s].pc = "performUpkeep"
    /\ handler' = [handler EXCEPT ![j][s].pc = "wait",
                                   ![j][s].arg = <<>>]
    /\ UNCHANGED <<subscribed, processedLogs, eventFilter, logTopicFilters>>
    /\ UNCHANGED <<regVars, customVars, histVars>>

\* _onLogDetected with one processed-log set shared by all LogTriggerJob objects.
HandlerWaitResolveSharedSet(j, s) ==
    /\ handler[j][s].pc = "wait"
    /\ processedLogs' = [i \in JobIds |-> processedLogs[i] \cup {handler[j][s].log}]
    /\ HandlerEnds(j, s)
    /\ UNCHANGED <<subscribed, eventFilter, logTopicFilters>>
    /\ UNCHANGED <<regVars, customVars, histVars>>

\* _onLogDetected that keeps the last log id only: `_processedLogs = new Set([logId])`.
HandlerWaitResolveKeepsLast(j, s) ==
    /\ handler[j][s].pc = "wait"
    /\ processedLogs' = [processedLogs EXCEPT ![j] = {handler[j][s].log}]
    /\ HandlerEnds(j, s)
    /\ lastHandler' = [lastHandler EXCEPT ![j] = "confirmed"]
    /\ UNCHANGED <<subscribed, eventFilter, logTopicFilters>>
    /\ UNCHANGED <<regVars, customVars>>
    /\ UNCHANGED <<startCalls, stopCalls, lastCall, live, lastTick, delivered, performCalls, cycleVars, appVars>>

\* tx.wait() returned the receipt: this._processedLogs.add(logId).
HandlerWaitResolve(j, s) ==
    /\ handler[j][s].pc = "wait"
    /\ processedLogs' = [processedLogs EXCEPT ![j] = @ \cup {handler[j][s].log}]
    /\ HandlerEnds(j, s)
    /\ lastHandler' = [lastHandler EXCEPT ![j] = "confirmed"]
    /\ UNCHANGED <<subscribed, eventFilter, logTopicFilters>>
    /\ UNCHANGED <<regVars, customVars>>
    /\ UNCHANGED <<startCalls, stopCalls, lastCall, live, lastTick, delivered, performCalls, cycleVars, appVars>>

\* _onLogDetected that adds the log id in a `finally`: also when a call threw.
HandlerRejectMarksProcessed(j, s) ==
    /\ handler[j][s].pc \in {"checkUpkeep", "performUpkeep", "wait"}
    /\ HandlerEnds(j, s)
    /\ processedLogs' = [processedLogs EXCEPT ![j] = @ \cup {handler[j][s].log}]
    /\ UNCHANGED <<subscribed, eventFilter, logTopicFilters>>
    /\ UNCHANGED <<regVars, customVars, histVars>>

\* _onLogDetected without the outer catch: the error leaves the listener and the
\* provider drops the subscription.
HandlerRejectUnsubscribes(j, s) ==
    /\ handler[j][s].pc \in {"checkUpkeep", "performUpkeep", "wait"}
    /\ HandlerEnds(j, s)
    /\ subscribed' = [subscribed EXCEPT ![j] = FALSE]
    /\ UNCHANGED <<processedLogs, eventFilter, logTopicFilters>>
    /\ UNCHANGED <<regVars, customVars, histVars>>

\* checkUpkeep(), performUpkeep() or tx.wait() threw: the outer catch logs it.
HandlerReject(j, s) ==
    /\ handler[j][s].pc \in {"checkUpkeep", "performUpkeep", "wait"}
    /\ HandlerEnds(j, s)
    /\ lastHandler' = [lastHandler EXCEPT ![j] = "failed"]
    /\ UNCHANGED <<subscribed, processedLogs, eventFilter, logTopicFilters>>
    /\ UNCHANGED <<regVars, customVars>>
    /\ UNCHANGED <<startCalls, stopCalls, lastCall, live, lastTick, delivered, performCalls, cycleVars, appVars>>

\* ---------------------------------------------------------------- specifications
RegistryStep ==
    \/ \E o \in Options : RegisterUpkeep(o) /\ UNCHANGED appVars
    \/ \E a \in Addr : UnregisterUpkeep(a) /\ UNCHANGED appVars

StartStep ==
    \/ \E j \in JobIds, b \in Blocks : StartResolve(j, b)
    \/ \E j \in JobIds : StartReject(j)

TickStep ==
    \/ \E j \in JobIds : Tick(j)
    \/ \E j \in JobIds, s \in TickSlots, b \in Blocks : TickGetBlockNumberResolve(j, s, b)
    \/ \E j \in JobIds, s \in TickSlots, n \in BOOLEAN, d \in Data : TickCheckUpkeepResolve(j, s, n, d)
    \/ \E j \in JobIds, s \in TickSlots : TickPerformUpkeepResolve(j, s)
    \/ \E j \in JobIds, s \in TickSlots : TickWaitResolve(j, s)
    \/ \E j \in JobIds, s \in TickSlots : TickReject(j, s)

LogStep ==
    \/ \E j \in JobIds, e \in Events : DeliverLog(j, e)
    \/ \E j \in JobIds, s \in HandlerSlots : HandlerGetBlockResolve(j, s)
    \/ \E j \in JobIds, s \in HandlerSlots, err \in Errors : HandlerProbeReject(j, s, err)
    \/ \E j \in JobIds, s \in HandlerSlots, n \in BOOLEAN, d \in Data : HandlerCheckLogResolve(j, s, n, d)
    \/ \E j \in JobIds, s \in HandlerSlots, n \in BOOLEAN, d \in Data : HandlerCheckUpkeepResolve(j, s, n, d)
    \/ \E j \in JobIds, s \in HandlerSlots : HandlerPerformUpkeepResolve(j, s)
    \/ \E j \in JobIds, s \in HandlerSlots : HandlerWaitResolve(j, s)
    \/ \E j \in JobIds, s \in HandlerSlots : HandlerReject(j, s)

\* The registry with the jobs' start() and stop(): every register and unregister
\* call, and the completion of each CustomLogicJob's start().
NextRegistry == RegistryStep \/ StartStep

SpecRegistry == Init /\ [][NextRegistry]_vars

CustomOptions == [upkeepContract |-> "0xA", triggerType |-> "custom",
                  logEmitterAddress |-> "", logEventSignature |-> "", logTopicFilters |-> NoFilters]

LogOptions == [upkeepContract |-> "0xA", triggerType |-> "log",
               logEmitterAddress |-> "0xE", logEventSignature |-> "Ev(uint256)",
               logTopicFilters |-> NoFilters]

\* The state registerUpkeep(options) leaves an empty registry in.
Registered(o, k) ==
    /\ jobs = [a \in Addr |-> IF a = o.upkeepContract THEN 1 ELSE None]
    /\ nextJob = 2
    /\ kind = [j \in JobIds |-> IF j = 1 THEN k ELSE "none"]
    /\ target = [j \in JobIds |-> IF j = 1 THEN o.upkeepContract ELSE "-"]
    /\ isExecuting = [j \in JobIds |-> FALSE]
    /\ lastProcessedBlock = [j \in JobIds |-> 0]
    /\ intervalId = [j \in JobIds |-> FALSE]
    /\ startPc = [j \in JobIds |-> IF j = 1 /\ k = "custom" THEN "getBlockNumber" ELSE "idle"]
    /\ tick = [j \in JobIds |-> [s \in TickSlots |-> IdleTick]]
    /\ subscribed = [j \in JobIds |-> j = 1 /\ k = "log"]
    /\ processedLogs = [j \in JobIds |-> {}]
    /\ handler = [j \in JobIds |-> [s \in HandlerSlots |-> IdleHandler]]
    /\ startCalls = [j \in JobIds |-> IF j = 1 THEN 1 ELSE 0]
    /\ stopCalls = [j \in JobIds |-> 0]
    /\ lastCall = [NoCall EXCEPT !.op = "register", !.addr = o.upkeepContract, !.options = o,
                                 !.result = "ok", !.constructed = {1}, !.started = {1}]
    /\ live = {o.upkeepContract}
    /\ lastTick = [j \in JobIds |-> "none"]
    /\ lastHandler = [j \in JobIds |-> "none"]
    /\ delivered = [j \in JobIds |-> [e \in Events |-> 0]]
    /\ performCalls = [j \in JobIds |-> [e \in Events |-> 0]]
    /\ eventFilter = [j \in JobIds |-> IF j = 1 /\ k = "log" THEN EventFilter(o) ELSE NoFilter]
    /\ logTopicFilters = [j \in JobIds |-> IF j = 1 /\ k = "log" THEN o.logTopicFilters ELSE NoFilters]
    /\ startHeight = [j \in JobIds |-> 0]
    /\ cycles = [j \in JobIds |-> NoCycles]
    /\ checkedAt = [j \in JobIds |-> {}]
    /\ InitApp

\* One registered CustomLogicJob from its start() to its stop(): its timer's ticks
\* and every completion of the chain-client calls a tick awaits.
InitCustom == Registered(CustomOptions, "custom")

NextCustom == (\E a \in Addr : UnregisterUpkeep(a) /\ UNCHANGED appVars) \/ StartStep \/ TickStep

SpecCustom == InitCustom /\ [][NextCustom]_vars

\* SpecCustom on a chain client that answers: the getBlockNumber() call start()
\* awaits is in the end resolved or rejected, and so is every call a tick awaits.
SpecCustomFair ==
    /\ SpecCustom
    /\ WF_vars(StartStep)
    /\ \A j \in JobIds, s \in TickSlots :
          WF_vars(TickReject(j, s) \/ TickWaitResolve(j, s) \/ TickPerformUpkeepResolve(j, s)
                    \/ \E n \in BOOLEAN, d \in Data : TickCheckUpkeepResolve(j, s, n, d)
                    \/ \E b \in Blocks : TickGetBlockNumberResolve(j, s, b))

\* One registered LogTriggerJob from its start() to its stop(): the logs delivered
\* to it and every completion of the chain-client calls a handler awaits.
InitLog == Registered(LogOptions, "log")

NextLog == (jobs["0xA"] # None /\ UnregisterUpkeep("0xA") /\ UNCHANGED appVars) \/ LogStep

SpecLog == InitLog /\ [][NextLog]_vars

\* One address registered, unregistered and registered again: the job objects
\* the registry constructs for it one after the other, each with its own start()
\* and its own log handling.
ReregisterStep ==
    \/ \E o \in {CustomOptions, LogOptions} : RegisterUpkeep(o) /\ UNCHANGED appVars
    \/ UnregisterUpkeep("0xA") /\ UNCHANGED appVars

\* The logs reach a job one at a time here, and the target answers every check
\* with (true, "d1") and confirms every transaction.
ReregisterLogStep ==
    \/ \E j \in JobIds, e \in Events : InFlightHandlers(j) = {} /\ DeliverLog(j, e)
    \/ \E j \in JobIds, s \in HandlerSlots : HandlerGetBlockResolve(j, s)
    \/ \E j \in JobIds, s \in HandlerSlots : HandlerCheckLogResolve(j, s, TRUE, "d1")
    \/ \E j \in JobIds, s \in HandlerSlots : HandlerPerformUpkeepResolve(j, s)
    \/ \E j \in JobIds, s \in HandlerSlots : HandlerWaitResolve(j, s)

NextReregister == ReregisterStep \/ StartStep \/ ReregisterLogStep

SpecReregister == Init /\ [][NextReregister]_vars

\* Two registered jobs side by side: a CustomLogicJob for "0xA" (job 1) and a
\* LogTriggerJob for "0xB" (job 2), the state two registerUpkeep calls leave an
\* empty registry in. The chain stands at height 0 when the CustomLogicJob
\* starts and every tick finds it one block higher, each log reaches the
\* LogTriggerJob once and one at a time, the targets return "d1" as performData,
\* and only registered addresses are unregistered.
InitPair ==
    /\ jobs = [a \in Addr |-> IF a = "0xA" THEN 1 ELSE 2]
    /\ nextJob = 3
    /\ kind = [j \in JobIds |-> IF j = 1 THEN "custom" ELSE IF j = 2 THEN "log" ELSE "none"]
    /\ target = [j \in JobIds |-> IF j = 1 THEN "0xA" ELSE IF j = 2 THEN "0xB" ELSE "-"]
    /\ isExecuting = [j \in JobIds |-> FALSE]
    /\ lastProcessedBlock = [j \in JobIds |-> 0]
    /\ intervalId = [j \in JobIds |-> FALSE]
    /\ startPc = [j \in JobIds |-> IF j = 1 THEN "getBlockNumber" ELSE "idle"]
    /\ tick = [j \in JobIds |-> [s \in TickSlots |-> IdleTick]]
    /\ subscribed = [j \in JobIds |-> j = 2]
    /\ processedLogs = [j \in JobIds |-> {}]
    /\ handler = [j \in JobIds |-> [s \in HandlerSlots |-> IdleHandler]]
    /\ eventFilter = [j \in JobIds |-> IF j = 2 THEN EventFilter(LogOptions) ELSE NoFilter]
    /\ logTopicFilters = [j \in JobIds |-> NoFilters]
    /\ startCalls = [j \in JobIds |-> IF j \in {1, 2} THEN 1 ELSE 0]
    /\ stopCalls = [j \in JobIds |-> 0]
    /\ lastCall = [NoCall EXCEPT !.op = "register", !.addr = "0xB",
                                 !.options = [LogOptions EXCEPT !.upkeepContract = "0xB"],
                                 !.result = "ok", !.before = [a \in Addr |-> IF a = "0xA" THEN 1 ELSE None],
                                 !.constructed = {2}, !.started = {2}]
    /\ live = {"0xA", "0xB"}
    /\ lastTick = [j \in JobIds |-> "none"]
    /\ lastHandler = [j \in JobIds |-> "none"]
    /\ delivered = [j \in JobIds |-> [e \in Events |-> 0]]
    /\ performCalls = [j \in JobIds |-> [e \in Events |-> 0]]
    /\ startHeight = [j \in JobIds |-> 0]
    /\ cycles = [j \in JobIds |-> NoCycles]
    /\ checkedAt = [j \in JobIds |-> {}]
    /\ InitApp

PairTickStep ==
    \/ \E j \in JobIds : StartResolve(j, 0)
    \/ \E j \in JobIds : Tick(j)
    \/ \E j \in JobIds, s \in TickSlots :
          lastProcessedBlock[j] < MaxBlock /\ TickGetBlockNumberResolve(j, s, lastProcessedBlock[j] + 1)
    \/ \E j \in JobIds, s \in TickSlots, n \in BOOLEAN : TickCheckUpkeepResolve(j, s, n, "d1")
    \/ \E j \in JobIds, s \in TickSlots : TickPerformUpkeepResolve(j, s)
    \/ \E j \in JobIds, s \in TickSlots : TickWaitResolve(j, s)
    \/ \E j \in JobIds, s \in TickSlots : TickReject(j, s)

PairLogStep ==
    \/ \E j \in JobIds, e \in Events :
          InFlightHandlers(j) = {} /\ delivered[j][e] = 0 /\ DeliverLog(j, e)
    \/ \E j \in JobIds, s \in HandlerSlots : HandlerGetBlockResolve(j, s)
    \/ \E j \in JobIds, s \in HandlerSlots, err \in Errors : HandlerProbeReject(j, s, err)
    \/ \E j \in JobIds, s \in HandlerSlots, n \in BOOLEAN : HandlerCheckLogResolve(j, s, n, "d1")
    \/ \E j \in JobIds, s \in HandlerSlots, n \in BOOLEAN : HandlerCheckUpkeepResolve(j, s, n, "d1")
    \/ \E j \in JobIds, s \in HandlerSlots : HandlerPerformUpkeepResolve(j, s)
    \/ \E j \in JobIds, s \in HandlerSlots : HandlerWaitResolve(j, s)
    \/ \E j \in JobIds, s \in HandlerSlots : HandlerReject(j, s)

NextPair == (\E a \in Addr : jobs[a] # None /\ UnregisterUpkeep(a) /\ UNCHANGED appVars) \/ PairTickStep \/ PairLogStep

SpecPair == InitPair /\ [][NextPair]_vars

\* The two jobs of InitPair on a chain whose confirmations can hang: tx.wait()
\* of a CustomLogicJob's cycle never returns, and neither does tx.wait() of the
\* handler of log HungLog; every other call is answered, and each log reaches the
\* LogTriggerJob once.
HungLog == "0xAA-0"

HungTickStep ==
    \/ \E j \in JobIds : StartResolve(j, 0)
    \/ \E j \in JobIds : Tick(j)
    \/ \E j \in JobIds, s \in TickSlots :
          lastProcessedBlock[j] < MaxBlock /\ TickGetBlockNumberResolve(j, s, lastProcessedBlock[j] + 1)
    \/ \E j \in JobIds, s \in TickSlots, n \in BOOLEAN : TickCheckUpkeepResolve(j, s, n, "d1")
    \/ \E j \in JobIds, s \in TickSlots : TickPerformUpkeepResolve(j, s)
    \/ \E j \in JobIds, s \in TickSlots : tick[j][s].pc # "wait" /\ TickReject(j, s)

HungLogStep ==
    \/ \E j \in JobIds, e \in Events : delivered[j][e] = 0 /\ DeliverLog(j, e)
    \/ \E j \in JobIds, s \in HandlerSlots : HandlerGetBlockResolve(j, s)
    \/ \E j \in JobIds, s \in HandlerSlots, n \in BOOLEAN : HandlerCheckLogResolve(j, s, n, "d1")
    \/ \E j \in JobIds, s \in HandlerSlots : HandlerPerformUpkeepResolve(j, s)
    \/ \E j \in JobIds, s \in HandlerSlots : handler[j][s].log # HungLog /\ HandlerWaitResolve(j, s)

NextHung == HungTickStep \/ HungLogStep

SpecHung == InitPair /\ [][NextHung]_vars

\* One registered LogTriggerJob and the logs that match its filter, each delivered
\* once and at any time; the target answers every check, modern or legacy, with
\* upkeepNeeded = true, and every transaction is confirmed.
TwoLogsStep ==
    \/ \E j \in JobIds, e \in Events : delivered[j][e] = 0 /\ DeliverLog(j, e)
    \/ \E j \in JobIds, s \in HandlerSlots : HandlerGetBlockResolve(j, s)
    \/ \E j \in JobIds, s \in HandlerSlots, err \in Errors :
          handler[j][s].pc = "checkLog" /\ IsFallback(err) /\ HandlerProbeReject(j, s, err)
    \/ \E j \in JobIds, s \in HandlerSlots, d \in Data : HandlerCheckLogResolve(j, s, TRUE, d)
    \/ \E j \in JobIds, s \in HandlerSlots, d \in Data : HandlerCheckUpkeepResolve(j, s, TRUE, d)
    \/ \E j \in JobIds, s \in HandlerSlots : HandlerPerformUpkeepResolve(j, s)
    \/ \E j \in JobIds, s \in HandlerSlots : HandlerWaitResolve(j, s)

NextTwoLogs == TwoLogsStep

SpecTwoLogs == InitLog /\ [][NextTwoLogs]_vars

\* One registered LogTriggerJob whose target has no checkLog: every checkLog call
\* fails with the unknown-function error, every block is fetched, and the legacy
\* checkUpkeep answers, or it or a later call fails. The logs reach the job one at
\* a time.
LegacyStep ==
    \/ \E j \in JobIds, e \in Events : InFlightHandlers(j) = {} /\ DeliverLog(j, e)
    \/ \E j \in JobIds, s \in HandlerSlots : HandlerGetBlockResolve(j, s)
    \/ \E j \in JobIds, s \in HandlerSlots, err \in Errors :
          handler[j][s].pc = "checkLog" /\ IsFallback(err) /\ HandlerProbeReject(j, s, err)
    \/ \E j \in JobIds, s \in HandlerSlots, n \in BOOLEAN, d \in Data : HandlerCheckUpkeepResolve(j, s, n, d)
    \/ \E j \in JobIds, s \in HandlerSlots : HandlerPerformUpkeepResolve(j, s)
    \/ \E j \in JobIds, s \in HandlerSlots : HandlerWaitResolve(j, s)
    \/ \E j \in JobIds, s \in HandlerSlots : HandlerReject(j, s)

NextLegacy == LegacyStep

SpecLegacy == InitLog /\ [][NextLegacy]_vars

\* A CustomLogicJob registered for "0xA", and the address unregistered and
\* registered again as a custom upkeep: the job objects the registry constructs
\* for it one after the other, each with its start(), its ticks and their cycles.
\* An address is unregistered only once its job's start() has set the timer. The
\* chain stands at height 0 at every start(), every tick finds it one block
\* higher, every check answers (true, "d1") and every transaction is confirmed.
RecustomStep ==
    \/ RegisterUpkeep(CustomOptions) /\ UNCHANGED appVars
    \/ jobs["0xA"] # None /\ startPc[jobs["0xA"]] = "done" /\ UnregisterUpkeep("0xA") /\ UNCHANGED appVars
    \/ \E j \in JobIds : StartResolve(j, 0)
    \/ \E j \in JobIds : Tick(j)
    \/ \E j \in JobIds, s \in TickSlots :
          lastProcessedBlock[j] < MaxBlock /\ TickGetBlockNumberResolve(j, s, lastProcessedBlock[j] + 1)
    \/ \E j \in JobIds, s \in TickSlots : TickCheckUpkeepResolve(j, s, TRUE, "d1")
    \/ \E j \in JobIds, s \in TickSlots : TickPerformUpkeepResolve(j, s)
    \/ \E j \in JobIds, s \in TickSlots : TickWaitResolve(j, s)

NextRecustom == RecustomStep

SpecRecustom == InitCustom /\ [][NextRecustom]_vars

\* Log upkeeps registered with and without logTopicFilters, and the logs the
\* provider then delivers to them.
FilterStep ==
    \/ \E o \in FilterOptions : RegisterUpkeep(o) /\ UNCHANGED appVars
    \/ UnregisterUpkeep("0xA") /\ UNCHANGED appVars

NextFilter == FilterStep \/ ReregisterLogStep

SpecFilter == Init /\ [][NextFilter]_vars

\* The whole simulator.
Next == RegistryStep \/ StartStep \/ TickStep \/ LogStep

Spec == Init /\ [][Next]_vars

\* ---------------------------------------------------------------- HTTP server
\* String.prototype.trim() on the strings of the model: " " is the one that
\* holds white space.
Trim(x) == IF x = " " THEN "" ELSE x

\* typeof v !== 'string' || v.trim() === ''
NotAString(v) == v.type # "string" \/ Trim(v.str) = ""

\* Bodies of well-formed register requests for the two kinds of upkeep.
ValidBodies ==
    [object : {TRUE}, name : {Str("n")}, upkeepContract : {Str("0xA"), Str("0xB")},
     triggerType : {Str("custom")}, gasLimit : {Num(500000)},
     logEmitterAddress : {Undefined}, logEventSignature : {Undefined}]
    \cup
    [object : {TRUE}, name : {Str("n")}, upkeepContract : {Str("0xA"), Str("0xB")},
     triggerType : {Str("log")}, gasLimit : {Num(500000)},
     logEmitterAddress : {Str("0xE")}, logEventSignature : {Str("Ev(uint256)")}]

\* The request bodies POST /register is sent: the well-formed ones, those for
\* "0xB" with one field absent, empty, blank, of another type or out of range,
\* and a body that is no object.
Bodies ==
    LET Base == {b \in ValidBodies : b.upkeepContract = Str("0xB")} IN
    ValidBodies \cup {NotAnObject}
    \cup {[b EXCEPT !.name = v] : b \in Base, v \in {Undefined, Str(""), Str(" "), Num(7)}}
    \cup {[b EXCEPT !.upkeepContract = v] : b \in Base, v \in {Undefined, Str(""), Str(" ")}}
    \cup {[b EXCEPT !.triggerType = v] : b \in Base, v \in {Undefined, Str("log"), Str("other")}}
    \cup {[b EXCEPT !.gasLimit = v] : b \in Base, v \in {Undefined, Num(0), Num(0 - 1), Str("500000")}}
    \cup {[b EXCEPT !.logEmitterAddress = v] : b \in Base, v \in {Undefined, Str("")}}
    \cup {[b EXCEPT !.logEventSignature = v] : b \in Base, v \in {Undefined, Str(" ")}}

\* validateRegisterBody(body): the errors it collects, in its order; none: { ok: true }.
ValidateRegisterBodyNoGasLimit(body) ==
    IF ~body.object
    THEN <<"Invalid JSON body">>
    ELSE (IF NotAString(body.name) THEN <<"name is required (string)">> ELSE <<>>)
         \o (IF NotAString(body.upkeepContract)
             THEN <<"upkeepContract is required (string address)">> ELSE <<>>)
         \o (IF body.triggerType # Str("log") /\ body.triggerType # Str("custom")
             THEN <<"triggerType must be 'log' or 'custom'">> ELSE <<>>)
         \o (IF body.triggerType = Str("log")
             THEN (IF NotAString(body.logEmitterAddress)
                   THEN <<"logEmitterAddress is required (string address) for triggerType=log">>
                   ELSE <<>>)
                  \o (IF NotAString(body.logEventSignature)
                      THEN <<"logEventSignature is required (string) for triggerType=log">>
                      ELSE <<>>)
             ELSE <<>>)

ValidateRegisterBody(body) ==
    IF ~body.object
    THEN <<"Invalid JSON body">>
    ELSE (IF NotAString(body.name) THEN <<"name is required (string)">> ELSE <<>>)
         \o (IF NotAString(body.upkeepContract)
             THEN <<"upkeepContract is required (string address)">> ELSE <<>>)
         \o (IF body.triggerType # Str("log") /\ body.triggerType # Str("custom")
             THEN <<"triggerType must be 'log' or 'custom'">> ELSE <<>>)
         \o (IF body.gasLimit.type # "number" \/ body.gasLimit.num <= 0
             THEN <<"gasLimit is required (positive number)">> ELSE <<>>)
         \o (IF body.triggerType = Str("log")
             THEN (IF NotAString(body.logEmitterAddress)
                   THEN <<"logEmitterAddress is required (string address) for triggerType=log">>
                   ELSE <<>>)
                  \o (IF NotAString(body.logEventSignature)
                      THEN <<"logEventSignature is required (string) for triggerType=log">>
                      ELSE <<>>)
             ELSE <<>>)

\* `req.body as CreateUpkeepOptions`: the fields of the body as the registry reads
\* them. An absent field reads as undefined, which the registry's `!field` takes
\* as it takes ''.
AsOptions(body) ==
    [upkeepContract |-> body.upkeepContract.str, triggerType |-> body.triggerType.str,
     logEmitterAddress |-> body.logEmitterAddress.str,
     logEventSignature |-> body.logEventSignature.str,
     logTopicFilters |-> NoFilters]

\* The handler of POST /register.
PostRegister(body) ==
    LET errors == ValidateRegisterBody(body) IN
    IF errors # <<>>
    THEN /\ response' = [route |-> "register", status |-> 400, errors |-> errors]
         /\ UNCHANGED <<regVars, customVars, logVars>>
         /\ UNCHANGED <<startCalls, stopCalls, lastCall, live, lastTick, lastHandler, delivered, performCalls, cycleVars>>
    ELSE /\ RegisterUpkeep(AsOptions(body))
         /\ response' = [route |-> "register", errors |-> <<>>,
                         status |-> IF lastCall'.result = "ok" THEN 200 ELSE 500]

\* The handler of POST /unregister; v is the body's upkeepContract.
PostUnregister(v) ==
    IF NotAString(v)
    THEN /\ response' = [route |-> "unregister", status |-> 400,
                         errors |-> <<"upkeepContract is required (string address)">>]
         /\ UNCHANGED <<regVars, customVars, logVars>>
         /\ UNCHANGED <<startCalls, stopCalls, lastCall, live, lastTick, lastHandler, delivered, performCalls, cycleVars>>
    ELSE /\ UnregisterUpkeep(v.str)
         /\ response' = [route |-> "unregister", errors |-> <<>>,
                         status |-> IF lastCall'.result = "ok" THEN 200 ELSE 500]

\* The server with any client: register and unregister requests with the bodies above.
ServerStep ==
    \/ \E body \in Bodies : PostRegister(body) /\ UNCHANGED <<local, automation, handled, chainlink, blockJob>>
    \/ \E v \in {Undefined, Str(" "), Str("0xA"), Str("0xB")} : PostUnregister(v) /\ UNCHANGED <<local, automation, handled, chainlink, blockJob>>

NextServer == ServerStep

SpecServer == Init /\ [][NextServer]_vars

\* ---------------------------------------------------------------- LocalProvider
\* The options createUpkeep is called with: the fields the simulator reads.
ClientOptions ==
    {[f \in (DOMAIN b) \ {"object"} |-> b[f]] : b \in Bodies \ {NotAnObject}}

\* axios.post(url, options) and express.json(): the options as JSON text, and
\* the text parsed to req.body. A field that is undefined is left out of the text
\* and absent from the body; strings and numbers arrive as they were.
Json(options) ==
    [f \in (DOMAIN options) \cup {"object"} |->
        IF f = "object" THEN TRUE
        ELSE IF options[f].type = "undefined" THEN Undefined ELSE options[f]]

\* The addresses the registry holds a job for.
RegisteredAddresses == {a \in Addr : jobs[a] # None}

\* LocalProvider.createUpkeep(options) up to its await: the options are posted to /register.
LocalCreateUpkeep(options) ==
    /\ local.pc \notin {"register", "registerAnswered", "unregister", "unregisterAnswered"}
    /\ local' = [pc |-> "register", body |-> Json(options), sent |-> Undefined, upkeepId |-> "-",
                 before |-> RegisteredAddresses, roundTrip |-> FALSE]
    /\ UNCHANGED <<regVars, customVars, logVars, response, automation, handled, chainlink, blockJob>>
    /\ UNCHANGED <<startCalls, stopCalls, lastCall, live, lastTick, lastHandler, delivered, performCalls, cycleVars>>

\* The server handles the register request the provider posted.
LocalRegisterServed ==
    /\ local.pc = "register"
    /\ PostRegister(local.body)
    /\ local' = [local EXCEPT !.pc = "registerAnswered"]
    /\ UNCHANGED <<automation, handled, chainlink, blockJob>>

\* createUpkeep that returns the name of the upkeep as its id.
LocalCreateUpkeepResumeReturnsName ==
    /\ local.pc = "registerAnswered"
    /\ local' = IF response.status = 200
                THEN [local EXCEPT !.pc = "created", !.upkeepId = local.body.name.str]
                ELSE [local EXCEPT !.pc = "createFailed"]
    /\ UNCHANGED <<regVars, customVars, logVars, response, automation, handled, chainlink, blockJob>>
    /\ UNCHANGED <<startCalls, stopCalls, lastCall, live, lastTick, lastHandler, delivered, performCalls, cycleVars>>

\* createUpkeep resumes with the response: axios rejects on a status outside 2xx
\* and createUpkeep with it; otherwise { upkeepId: options.upkeepContract } is returned.
LocalCreateUpkeepResume ==
    /\ local.pc = "registerAnswered"
    /\ local' = IF response.status = 200
                THEN [local EXCEPT !.pc = "created", !.upkeepId = local.body.upkeepContract.str]
                ELSE [local EXCEPT !.pc = "createFailed"]
    /\ UNCHANGED <<regVars, customVars, logVars, response, automation, handled, chainlink, blockJob>>
    /\ UNCHANGED <<startCalls, stopCalls, lastCall, live, lastTick, lastHandler, delivered, performCalls, cycleVars>>

\* LocalProvider.cancelUpkeep(upkeepId) up to its await: { upkeepContract: upkeepId }
\* is posted to /unregister.
LocalCancelUpkeep(upkeepId) ==
    /\ local.pc \notin {"register", "registerAnswered", "unregister", "unregisterAnswered"}
    /\ local' = [local EXCEPT !.pc = "unregister", !.sent = Str(upkeepId),
                              !.roundTrip = (local.pc = "created" /\ upkeepId = local.upkeepId)]
    /\ UNCHANGED <<regVars, customVars, logVars, response, automation, handled, chainlink, blockJob>>
    /\ UNCHANGED <<startCalls, stopCalls, lastCall, live, lastTick, lastHandler, delivered, performCalls, cycleVars>>

\* The server handles the unregister request the provider posted.
LocalUnregisterServed ==
    /\ local.pc = "unregister"
    /\ PostUnregister(local.sent)
    /\ local' = [local EXCEPT !.pc = "unregisterAnswered"]
    /\ UNCHANGED <<automation, handled, chainlink, blockJob>>

\* cancelUpkeep resumes with the response.
LocalCancelUpkeepResume ==
    /\ local.pc = "unregisterAnswered"
    /\ local' = [local EXCEPT !.pc = IF response.status = 200 THEN "cancelled" ELSE "cancelFailed"]
    /\ UNCHANGED <<regVars, customVars, logVars, response, automation, handled, chainlink, blockJob>>
    /\ UNCHANGED <<startCalls, stopCalls, lastCall, live, lastTick, lastHandler, delivered, performCalls, cycleVars>>

\* One LocalProvider as the simulator's only client, its calls awaited one after another.
NextLocal ==
    \/ \E options \in ClientOptions : LocalCreateUpkeep(options)
    \/ LocalRegisterServed
    \/ LocalCreateUpkeepResume
    \/ \E upkeepId \in Addr : LocalCancelUpkeep(upkeepId)
    \/ LocalUnregisterServed
    \/ LocalCancelUpkeepResume

SpecLocal == Init /\ [][NextLocal]_vars

\* ---------------------------------------------------------------- Automation
\* The chain ids chainlinkAutomationNetworks has an entry for.
SupportedChains ==
    {1, 11155111, 42161, 421614, 43114, 43113, 8453, 84532, 56, 97, 250, 4002, 100, 10200,
     10, 11155420, 137, 1101, 1442, 534352, 534351}

\* The configs an Automation is constructed with: mode absent, null, or a string;
\* chain ids the library knows and two it does not know.
Configs ==
    [mode : {Undefined, Null, Str("chainlink"), Str("local"), Str("unsupported"), Str("Local"), Str("")},
     chainId : {1, 11155111, 137, 534351, 31337, 5},
     signer : {"s1", "s2"}]

\* The text a template literal puts for a value.
TemplateText(v) ==
    IF v.type = "string" THEN v.str
    ELSE IF v.type = "undefined" THEN "undefined"
    ELSE IF v.type = "null" THEN "null"
    ELSE ToString(v.num)

\* new ChainlinkProvider(signer, chainId): getAutomationNetworkConfig throws for a
\* chain id without an entry.
NewChainlinkProvider(chainId) ==
    IF chainId \in SupportedChains
    THEN [provider |-> "ChainlinkProvider", thrown |-> ""]
    ELSE [provider |-> "-",
          thrown |-> "Chainlink Automation is not supported on chainId '" \o ToString(chainId)
                     \o "' by this library."]

\* The constructor with `mode = 'local'` as the default of the destructuring.
NewAutomationDefaultLocal ==
    LET mode == IF automation.mode = Undefined THEN Str("local") ELSE automation.mode IN
    /\ automation.pc = "new"
    /\ automation' =
          IF mode = Str("chainlink")
          THEN LET made == NewChainlinkProvider(automation.chainId) IN
               [automation EXCEPT !.pc = IF made.thrown = "" THEN "constructed" ELSE "threw",
                                  !.calls = <<"ChainlinkProvider">>,
                                  !.provider = made.provider, !.thrown = made.thrown]
          ELSE IF mode = Str("local")
          THEN [automation EXCEPT !.pc = "constructed", !.calls = <<"LocalProvider">>,
                                  !.provider = "LocalProvider"]
          ELSE [automation EXCEPT !.pc = "threw",
                                  !.thrown = "Mode \"" \o TemplateText(mode) \o "\" is not yet supported."]
    /\ UNCHANGED <<regVars, customVars, logVars, response, local, handled, chainlink, blockJob>>
    /\ UNCHANGED <<startCalls, stopCalls, lastCall, live, lastTick, lastHandler, delivered, performCalls, cycleVars>>

\* new Automation(config): the constructor, with the provider constructor it calls.
NewAutomation ==
    LET mode == IF automation.mode = Undefined THEN Str("chainlink") ELSE automation.mode IN
    /\ automation.pc = "new"
    /\ automation' =
          IF mode = Str("chainlink")
          THEN LET made == NewChainlinkProvider(automation.chainId) IN
               [automation EXCEPT !.pc = IF made.thrown = "" THEN "constructed" ELSE "threw",
                                  !.calls = <<"ChainlinkProvider">>,
                                  !.provider = made.provider, !.thrown = made.thrown]
          ELSE IF mode = Str("local")
          THEN [automation EXCEPT !.pc = "constructed", !.calls = <<"LocalProvider">>,
                                  !.provider = "LocalProvider"]
          ELSE [automation EXCEPT !.pc = "threw",
                                  !.thrown = "Mode \"" \o TemplateText(mode) \o "\" is not yet supported."]
    /\ UNCHANGED <<regVars, customVars, logVars, response, local, handled, chainlink, blockJob>>
    /\ UNCHANGED <<startCalls, stopCalls, lastCall, live, lastTick, lastHandler, delivered, performCalls, cycleVars>>

\* An Automation constructed once with each config.
InitAutomation ==
    /\ InitSimulator
    /\ response = NoResponse
    /\ local = IdleLocal
    /\ handled = NotHandled
    /\ chainlink = IdleChainlink
    /\ blockJob = NoBlockJob
    /\ \E c \in Configs :
          automation = [NoAutomation EXCEPT !.pc = "new", !.mode = c.mode, !.chainId = c.chainId,
                                            !.signer = c.signer]

NextAutomation == NewAutomation

SpecAutomation == InitAutomation /\ [][NextAutomation]_vars

\* ---------------------------------------------------------------- ChainlinkProvider errors
\* REVERT_SELECTORS
REVERT_SELECTORS ==
    [sel \in {"0x8baa579f", "0x6354999f", "0x0274e761", "0x514b6c24", "0x972dda13", "0x729023c1",
              "0xd305a542", "0xcf89f138", "0x263c3324"} |->
        CASE sel = "0x8baa579f" -> "Insufficient LINK funds to fulfill the request."
          [] sel = "0x6354999f" -> "The upkeep is not active."
          [] sel = "0x0274e761" -> "The upkeep is already registered."
          [] sel = "0x514b6c24" -> "Permission Denied: The connected wallet is not the admin for this upkeep."
          [] sel = "0x972dda13" -> "Upkeep is already paused."
          [] sel = "0x729023c1" -> "Upkeep is not paused."
          [] sel = "0xd305a542" -> "Upkeep cannot be canceled because it is not paused."
          [] sel = "0xcf89f138" -> "Upkeep is already canceled."
          [] sel = "0x263c3324" -> "Insufficient LINK funds to perform upkeep."]

\* String.prototype.startsWith and its mirror image.
StartsWith(x, prefix) == Len(x) >= Len(prefix) /\ SubSeq(x, 1, Len(prefix)) = prefix

EndsWith(x, suffix) == Len(x) >= Len(suffix) /\ SubSeq(x, Len(x) - Len(suffix) + 1, Len(x)) = suffix

\* The body of a JSON-RPC error response that carries the revert data d.
BodyText(d) == "{\"error\":{\"data\":\"" \o d \o "\"}}"

\* JSON.parse(body)?.error?.data for the body texts of the model: the data of
\* a JSON-RPC error response; undefined for any other text (which JSON.parse
\* rejects, or which holds no error data).
JsonErrorData(text) ==
    IF StartsWith(text, "{\"error\":{\"data\":\"") /\ EndsWith(text, "\"}}")
    THEN Str(SubSeq(text, Len("{\"error\":{\"data\":\"") + 1, Len(text) - Len("\"}}")))
    ELSE Undefined

\* An error object with the fields _handleContractError reads.
Obj(data, error, body, reason, message) ==
    [type |-> "object", data |-> data, error |-> error, body |-> body, reason |-> reason,
     message |-> message]

\* The error objects found nested under .error.
NestedErrors ==
    {Obj(d, Undefined, b, Undefined, m) :
        d \in {Undefined, Str("0x8baa579f"), Str("0xdeadbeef")},
        b \in {Undefined, Str(BodyText("0x6354999f"))},
        m \in {Undefined, Str("inner")}}

\* The values _handleContractError is called with: error objects, and values
\* that are no objects.
ErrorValues ==
    {Undefined, Null, Str("boom")}
    \cup {Obj(d, e, b, r, m) :
            d \in {Undefined, Str("0x514b6c24"), Str("0xdeadbeef"), Str("0x")},
            e \in {Undefined, Null} \cup NestedErrors,
            b \in {Undefined, Str(BodyText("0x0274e761")), Str(BodyText("0xdeadbeef")),
                   Str("Bad Gateway")},
            r \in {Undefined, Str("r")},
            m \in {Undefined, Str("m")}}

\* _findRevertData(error): a string, or undefined.
RECURSIVE FindRevertData(_)
FindRevertData(error) ==
    IF error.type # "object"
    THEN Undefined
    ELSE IF error.data.type = "string" /\ StartsWith(error.data.str, "0x")
    THEN error.data
    ELSE IF error.error.type = "object"
    THEN FindRevertData(error.error)
    ELSE IF error.body.type = "string"
    THEN LET bd == JsonErrorData(error.body.str) IN
         IF bd.type = "string" THEN bd ELSE Undefined
    ELSE Undefined

\* _handleContractError(error, context): the message of the Error it throws.
HandleContractError(error, context) ==
    LET selector == FindRevertData(error) IN
    IF selector.type = "string" /\ selector.str # "" /\ selector.str \in DOMAIN REVERT_SELECTORS
    THEN "Error during " \o context \o ": " \o REVERT_SELECTORS[selector.str]
    ELSE IF error.type = "object" /\ error.reason.type = "string"
    THEN "Error during " \o context \o ": " \o error.reason.str
    ELSE IF error.type = "object" /\ error.message.type = "string"
    THEN "Error during " \o context \o ": " \o error.message.str
    ELSE "Error during " \o context \o ": An unknown error occurred"

\* A catch block calls _handleContractError(error, context).
Handle ==
    /\ handled.thrown = ""
    /\ handled' = [handled EXCEPT !.thrown = HandleContractError(handled.error, handled.context)]
    /\ UNCHANGED <<regVars, customVars, logVars, response, local, automation, chainlink, blockJob>>
    /\ UNCHANGED <<startCalls, stopCalls, lastCall, live, lastTick, lastHandler, delivered, performCalls, cycleVars>>

\* _handleContractError called once with each error value and context.
InitHandle ==
    /\ InitSimulator
    /\ response = NoResponse
    /\ local = IdleLocal
    /\ automation = NoAutomation
    /\ chainlink = IdleChainlink
    /\ blockJob = NoBlockJob
    /\ \E e \in ErrorValues, c \in {"createUpkeep", "pauseUpkeep"} :
          handled = [error |-> e, context |-> c, thrown |-> ""]

NextHandle == Handle

SpecHandle == InitHandle /\ [][NextHandle]_vars

\* ---------------------------------------------------------------- ChainlinkProvider.createUpkeep
\* The addresses of the network config, and the signer's address.
RegistrarAddress == "0xRegistrar"

RegistryAddress == "0xRegistry"

AdminAddress == "0xAdmin"

\* The options createUpkeep is called with: the funds as decimal text, and the kind.
ChainlinkOptions == [initialFunds : {"1.5", "10.0", "abc"}, triggerType : {"custom", "log"}]

\* ethers.utils.parseEther on the texts of the model: the amount in wei as
\* digits * 10^exp, or a throw for a text that is no decimal number.
ParseEther(text) ==
    CASE text = "1.5" -> [ok |-> TRUE, wei |-> [digits |-> 15, exp |-> 17]]
      [] text = "10.0" -> [ok |-> TRUE, wei |-> [digits |-> 1, exp |-> 19]]
      [] OTHER -> [ok |-> FALSE, wei |-> [digits |-> 0, exp |-> 0]]

\* _encodeTriggerConfig(options) for options without topic filters.
EncodeTriggerConfig(options) ==
    IF options.triggerType = "custom"
    THEN <<"0x">>
    ELSE <<"abi", "address", "0xE", "uint8", 0, "bytes32", Id("Ev(uint256)"),
           "bytes32", "HashZero", "bytes32", "HashZero", "bytes32", "HashZero">>

\* The registrationParams createUpkeep passes to registerUpkeep.
RegistrationParams(options) ==
    [adminAddress |-> AdminAddress, triggerType |-> IF options.triggerType = "log" THEN 1 ELSE 0,
     triggerConfig |-> EncodeTriggerConfig(options), amount |-> ParseEther(options.initialFunds).wei]

\* The logs a registration receipt can hold: who emitted the log, the event the
\* registry's interface parses it as ("unparseable": parseLog throws), and its id.
ReceiptLogs ==
    {[address |-> RegistryAddress, name |-> "UpkeepRegistered", id |-> 42],
     [address |-> RegistryAddress, name |-> "UpkeepRegistered", id |-> 43],
     [address |-> RegistryAddress, name |-> "FundsAdded", id |-> 42],
     [address |-> RegistryAddress, name |-> "unparseable", id |-> 0],
     [address |-> "0xLink", name |-> "UpkeepRegistered", id |-> 7]}

\* The receipts: up to two logs.
Receipts == {<<>>} \cup {<<l>> : l \in ReceiptLogs} \cup {<<l, k>> : l \in ReceiptLogs, k \in ReceiptLogs}

\* One entry of the trace of a createUpkeep call.
Event(call, args) == [call |-> call, args |-> args]

\* _parseUpkeepIdFromReceipt(receipt): the id of the first log of the registry
\* that parses as UpkeepRegistered, as text; or a throw.
ParseUpkeepIdFromReceipt(receipt) ==
    LET hits == {i \in 1..Len(receipt) :
                    /\ receipt[i].address = RegistryAddress
                    /\ receipt[i].name = "UpkeepRegistered"} IN
    IF hits = {}
    THEN [ok |-> FALSE, id |-> "",
          error |-> Obj(Undefined, Undefined, Undefined, Undefined,
                        Str("Could not find the UpkeepRegistered event in the transaction receipt."))]
    ELSE [ok |-> TRUE, id |-> ToString(receipt[CHOOSE i \in hits : \A k \in hits : i <= k].id),
          error |-> Undefined]

\* The catch of createUpkeep: _handleContractError(_error, 'createUpkeep').
CreateThrows(error) ==
    chainlink' = [chainlink EXCEPT !.pc = "threw",
                                   !.thrown = HandleContractError(error, "createUpkeep")]

\* What createUpkeep leaves alone.
CreateFrame ==
    /\ UNCHANGED <<regVars, customVars, logVars, response, local, automation, handled, blockJob>>
    /\ UNCHANGED <<startCalls, stopCalls, lastCall, live, lastTick, lastHandler, delivered, performCalls, cycleVars>>

\* createUpkeep(options) up to its first await: the funds are parsed and the LINK
\* approve for the registrar is submitted.
CreateUpkeep(options) ==
    /\ chainlink.pc = "idle"
    /\ IF ParseEther(options.initialFunds).ok
       THEN chainlink' = [chainlink EXCEPT
                !.pc = "approve", !.options = options,
                !.trace = <<Event("approve", <<RegistrarAddress, ParseEther(options.initialFunds).wei>>)>>]
       ELSE /\ CreateThrows(Obj(Undefined, Undefined, Undefined, Str("invalid decimal value"),
                                Str("invalid decimal value")))
    /\ CreateFrame

\* createUpkeep that does not wait for the approval's confirmation.
CreateApproveResolveNoWait ==
    /\ chainlink.pc = "approve"
    /\ chainlink' = [chainlink EXCEPT !.pc = "getAddress", !.trace = @ \o <<Event("getAddress", <<>>)>>]
    /\ CreateFrame

\* approve returned the transaction: approveTx.wait() is awaited.
CreateApproveResolve ==
    /\ chainlink.pc = "approve"
    /\ chainlink' = [chainlink EXCEPT !.pc = "approveWait", !.trace = @ \o <<Event("approveTx.wait", <<>>)>>]
    /\ CreateFrame

\* The approval is confirmed: the signer's address is asked for.
CreateApproveWaitResolve ==
    /\ chainlink.pc = "approveWait"
    /\ chainlink' = [chainlink EXCEPT
            !.pc = "getAddress",
            !.trace = @ \o <<Event("approve confirmed", <<>>), Event("getAddress", <<>>)>>]
    /\ CreateFrame

\* getAddress() returned: the trigger config is encoded and registerUpkeep is submitted.
CreateGetAddressResolve ==
    /\ chainlink.pc = "getAddress"
    /\ chainlink' = [chainlink EXCEPT
            !.pc = "registerUpkeep",
            !.trace = @ \o <<Event("registerUpkeep", <<RegistrationParams(chainlink.options)>>)>>]
    /\ CreateFrame

\* registerUpkeep returned the transaction: registerTx.wait() is awaited.
CreateRegisterResolve ==
    /\ chainlink.pc = "registerUpkeep"
    /\ chainlink' = [chainlink EXCEPT !.pc = "registerWait", !.trace = @ \o <<Event("registerTx.wait", <<>>)>>]
    /\ CreateFrame

\* The registration is confirmed with a receipt: the upkeep id is parsed from it
\* and returned, or the parse throws into the catch.
CreateRegisterWaitResolve(receipt) ==
    LET parsed == ParseUpkeepIdFromReceipt(receipt) IN
    /\ chainlink.pc = "registerWait"
    /\ IF parsed.ok
       THEN chainlink' = [chainlink EXCEPT !.pc = "returned", !.receipt = receipt, !.upkeepId = parsed.id]
       ELSE chainlink' = [chainlink EXCEPT
                !.pc = "threw", !.receipt = receipt,
                !.thrown = HandleContractError(parsed.error, "createUpkeep")]
    /\ CreateFrame

\* An awaited call of createUpkeep rejects with error.
CreateReject(error) ==
    /\ chainlink.pc \in {"approve", "approveWait", "getAddress", "registerUpkeep", "registerWait"}
    /\ CreateThrows(error)
    /\ CreateFrame

\* One createUpkeep call of a ChainlinkProvider, from the call to its end.
NextCreate ==
    \/ \E options \in ChainlinkOptions : CreateUpkeep(options)
    \/ CreateApproveResolve
    \/ CreateApproveWaitResolve
    \/ CreateGetAddressResolve
    \/ CreateRegisterResolve
    \/ \E receipt \in Receipts : CreateRegisterWaitResolve(receipt)
    \/ \E error \in {Str("boom"), Obj(Str("0x8baa579f"), Undefined, Undefined, Undefined, Undefined),
                     Obj(Undefined, Undefined, Undefined, Str("r"), Str("m"))} : CreateReject(error)

SpecCreate == Init /\ [][NextCreate]_vars

\* ---------------------------------------------------------------- block-event CustomLogicJob
\* The invocations of _onNewBlock that are suspended in an await.
Pending(pcs) == {k \in BlockEvents : blockJob.invocation[k] \in pcs}

\* start(): this._provider.on('block', this._onNewBlock).
BlockJobStart ==
    /\ ~blockJob.listening
    /\ blockJob.delivered = 0
    /\ blockJob' = [blockJob EXCEPT !.listening = TRUE]
    /\ UNCHANGED <<regVars, customVars, logVars>>
    /\ UNCHANGED <<startCalls, stopCalls, lastCall, live, lastTick, lastHandler, delivered, performCalls, cycleVars>>
    /\ UNCHANGED <<response, local, automation, handled, chainlink>>

\* stop(): this._provider.off('block', this._onNewBlock).
BlockJobStop ==
    /\ blockJob.listening
    /\ blockJob' = [blockJob EXCEPT !.listening = FALSE]
    /\ UNCHANGED <<regVars, customVars, logVars>>
    /\ UNCHANGED <<startCalls, stopCalls, lastCall, live, lastTick, lastHandler, delivered, performCalls, cycleVars>>
    /\ UNCHANGED <<response, local, automation, handled, chainlink>>

\* The provider emits 'block': _onNewBlock up to its first await. With
\* _isExecuting set it returns at once, before the try; else it calls checkUpkeep.
OnNewBlock ==
    /\ blockJob.listening
    /\ blockJob.delivered < MaxBlockEvents
    /\ blockJob' = [blockJob EXCEPT
            !.delivered = @ + 1,
            !.invocation[blockJob.delivered + 1] = IF blockJob.isExecuting THEN "skipped" ELSE "checkUpkeep"]
    /\ UNCHANGED <<regVars, customVars, logVars>>
    /\ UNCHANGED <<startCalls, stopCalls, lastCall, live, lastTick, lastHandler, delivered, performCalls, cycleVars>>
    /\ UNCHANGED <<response, local, automation, handled, chainlink>>

\* checkUpkeep("0x") returned: if (upkeepNeeded) _isExecuting = true and
\* performUpkeep is called; else the `finally` clears _isExecuting.
OnNewBlockCheckUpkeepResolve(k, upkeepNeeded) ==
    /\ blockJob.invocation[k] = "checkUpkeep"
    /\ blockJob' = IF upkeepNeeded
                   THEN [blockJob EXCEPT !.isExecuting = TRUE, !.invocation[k] = "performUpkeep"]
                   ELSE [blockJob EXCEPT !.isExecuting = FALSE, !.invocation[k] = "done"]
    /\ UNCHANGED <<regVars, customVars, logVars>>
    /\ UNCHANGED <<startCalls, stopCalls, lastCall, live, lastTick, lastHandler, delivered, performCalls, cycleVars>>
    /\ UNCHANGED <<response, local, automation, handled, chainlink>>

\* performUpkeep() returned the submitted transaction: tx.wait() is awaited.
OnNewBlockPerformUpkeepResolve(k) ==
    /\ blockJob.invocation[k] = "performUpkeep"
    /\ blockJob' = [blockJob EXCEPT !.invocation[k] = "wait"]
    /\ UNCHANGED <<regVars, customVars, logVars>>
    /\ UNCHANGED <<startCalls, stopCalls, lastCall, live, lastTick, lastHandler, delivered, performCalls, cycleVars>>
    /\ UNCHANGED <<response, local, automation, handled, chainlink>>

\* tx.wait() returned the receipt: the `finally` clears _isExecuting.
OnNewBlockWaitResolve(k) ==
    /\ blockJob.invocation[k] = "wait"
    /\ blockJob' = [blockJob EXCEPT !.isExecuting = FALSE, !.invocation[k] = "done"]
    /\ UNCHANGED <<regVars, customVars, logVars>>
    /\ UNCHANGED <<startCalls, stopCalls, lastCall, live, lastTick, lastHandler, delivered, performCalls, cycleVars>>
    /\ UNCHANGED <<response, local, automation, handled, chainlink>>

\* An awaited call of _onNewBlock threw: the catch logs, the `finally` clears
\* _isExecuting.
OnNewBlockReject(k) ==
    /\ blockJob.invocation[k] \in {"checkUpkeep", "performUpkeep", "wait"}
    /\ blockJob' = [blockJob EXCEPT !.isExecuting = FALSE, !.invocation[k] = "failed"]
    /\ UNCHANGED <<regVars, customVars, logVars>>
    /\ UNCHANGED <<startCalls, stopCalls, lastCall, live, lastTick, lastHandler, delivered, performCalls, cycleVars>>
    /\ UNCHANGED <<response, local, automation, handled, chainlink>>

\* One block-event CustomLogicJob from its construction on: start(), stop(), the
\* 'block' events the provider delivers and every completion of the calls the
\* handler awaits.
NextBlockJob ==
    \/ BlockJobStart
    \/ BlockJobStop
    \/ OnNewBlock
    \/ \E k \in BlockEvents, n \in BOOLEAN : OnNewBlockCheckUpkeepResolve(k, n)
    \/ \E k \in BlockEvents : OnNewBlockPerformUpkeepResolve(k)
    \/ \E k \in BlockEvents : OnNewBlockWaitResolve(k)
    \/ \E k \in BlockEvents : OnNewBlockReject(k)

SpecBlockJob == Init /\ [][NextBlockJob]_vars

\* ---------------------------------------------------------------- properties
ActiveJobs(a) == {j \in JobIds : kind[j] # "none" /\ target[j] = a /\ (intervalId[j] \/ subscribed[j])}

ValidLog(o) == o.triggerType = "log" /\ o.logEmitterAddress # "" /\ o.logEventSignature # ""

InvalidLog(o) == o.triggerType = "log" /\ (o.logEmitterAddress = "" \/ o.logEventSignature = "")

CountOf(m) == Cardinality({a \in Addr : m[a] # None})

\* C1: at no time are two _tick() cycles of one CustomLogicJob in flight: a tick
\* passes the guard only when no earlier cycle of that job is still pending.
C1_NoOverlappingCycles ==
    \A j \in JobIds : Cardinality(InFlightTicks(j)) <= 1

\* C1 witness: a tick arrived while a cycle was in flight and was turned away.
C1_Witness ==
    \E j \in JobIds : lastTick[j] = "dropped" /\ \E s \in TickSlots : tick[j][s].pc = "wait"

\* C2 (as claimed): a log delivered at most twice to a LogTriggerJob causes at most
\* one performUpkeep call for that log.
C2_AtMostOneExecute ==
    \A j \in JobIds, e \in Events : delivered[j][e] <= 2 => performCalls[j][e] <= 1

\* C3 (as claimed): once a log id is in _processedLogs, no step makes another
\* performUpkeep call for that log.
C3_NoExecuteOnceProcessed ==
    [][\A j \in JobIds, e \in Events :
          e \in processedLogs[j] => performCalls'[j][e] = performCalls[j][e]]_vars

\* C4 (as claimed): for every address at most one job holds a live timer or a
\* log subscription.
C4_OneActiveJobPerAddress ==
    \A a \in Addr : Cardinality(ActiveJobs(a)) <= 1

\* C5 (as claimed): once stop() has returned for a job, no new _tick() cycle and
\* no new _onLogDetected() handling of that job begins.
C5_NothingBeginsAfterStop ==
    [][\A j \in JobIds : stopCalls[j] > 0 =>
          /\ \A s \in TickSlots : tick[j][s].pc = "idle" => tick'[j][s].pc = "idle"
          /\ \A s \in HandlerSlots : handler[j][s].pc = "idle" => handler'[j][s].pc = "idle"]_vars

\* C6: no step ever lowers a job's lastProcessedBlock.
C6_LastProcessedBlockNonDecreasing ==
    [][\A j \in JobIds : lastProcessedBlock'[j] >= lastProcessedBlock[j]]_vars

\* C6 witness: a tick has advanced lastProcessedBlock to the highest height and
\* awaits checkUpkeep for it.
C6_Witness ==
    \E j \in JobIds :
        /\ startPc[j] = "done"
        /\ lastProcessedBlock[j] = MaxBlock
        /\ lastTick[j] = "admitted"
        /\ isExecuting[j]
        /\ \E s \in TickSlots : tick[j][s].pc = "checkUpkeep"

\* C7: a register of an address that already has a job fails with the duplicate
\* error, constructs and starts no job, and leaves the registry as it was, with
\* the one original job for that address.
C7_DuplicateRegisterRejected ==
    (lastCall.op = "register" /\ lastCall.before[lastCall.addr] # None) =>
        /\ lastCall.result = "DuplicateJob"
        /\ lastCall.constructed = {} /\ lastCall.started = {}
        /\ jobs = lastCall.before
        /\ Count = CountOf(lastCall.before)
        /\ startCalls[jobs[lastCall.addr]] = 1

\* C7 witness: the second register of an address has just failed.
C7_Witness ==
    /\ lastCall.op = "register" /\ lastCall.result = "DuplicateJob"
    /\ startCalls[jobs[lastCall.addr]] = 1
    /\ Count = 1

\* C8: an unregister of an address without a job fails with the not-found error,
\* stops no job and leaves the registry as it was.
C8_UnknownUnregisterRejected ==
    (lastCall.op = "unregister" /\ lastCall.before[lastCall.addr] = None) =>
        /\ lastCall.result = "NotFound"
        /\ lastCall.stopped = {}
        /\ jobs = lastCall.before
        /\ Count = CountOf(lastCall.before)
        /\ \A a \in Addr : jobs[a] # None => stopCalls[jobs[a]] = 0

\* C8 witness: an unregister of an unknown address has just failed while another
\* address holds a job.
C8_Witness ==
    /\ lastCall.op = "unregister" /\ lastCall.result = "NotFound"
    /\ Count = 1

\* C9: a register, for an address without a job, of log options that lack the
\* emitter address or the event signature fails with the validation error; no job
\* is constructed, stored or started; and a register of valid log options for the
\* same address right after it succeeds.
C9_InvalidLogOptionsRejected ==
    /\ (lastCall.op = "register" /\ lastCall.before[lastCall.addr] = None
          /\ InvalidLog(lastCall.options)) =>
        /\ lastCall.result = "Validation"
        /\ lastCall.constructed = {} /\ lastCall.started = {}
        /\ jobs = lastCall.before
        /\ jobs[lastCall.addr] = None
        /\ Count = CountOf(lastCall.before)
    /\ (lastCall.op = "register" /\ ValidLog(lastCall.options) /\ lastCall.retry) =>
        /\ lastCall.result = "ok"
        /\ jobs[lastCall.addr] # None
        /\ kind[jobs[lastCall.addr]] = "log"
        /\ subscribed[jobs[lastCall.addr]]

\* C9 witness: invalid log options were rejected for an address, and the
\* register of valid log options for the same address that followed has succeeded.
C9_Witness ==
    /\ lastCall.op = "register" /\ lastCall.result = "ok" /\ lastCall.retry
    /\ ValidLog(lastCall.options)
    /\ Count = 1

\* C10: the registry holds exactly the addresses registered successfully and not
\* since unregistered successfully; the job stored for an address had start()
\* called once and stop() never; a job that was unregistered had start() and
\* stop() called once each and is no longer stored.
C10_RegistryMatchesCalls ==
    /\ {a \in Addr : jobs[a] # None} = live
    /\ Count = Cardinality(live)
    /\ \A a \in Addr : jobs[a] # None =>
          /\ jobs[a] \in JobIds /\ kind[jobs[a]] # "none" /\ target[jobs[a]] = a
          /\ startCalls[jobs[a]] = 1 /\ stopCalls[jobs[a]] = 0
    /\ \A j \in JobIds :
          /\ kind[j] = "none" => startCalls[j] = 0 /\ stopCalls[j] = 0
          /\ (kind[j] # "none" /\ jobs[target[j]] # j) => startCalls[j] = 1 /\ stopCalls[j] = 1
    /\ (lastCall.result = "ok" /\ lastCall.op = "register") =>
          lastCall.constructed = lastCall.started /\ Cardinality(lastCall.started) = 1
    /\ (lastCall.result = "ok" /\ lastCall.op = "unregister") =>
          /\ lastCall.stopped = {lastCall.before[lastCall.addr]}
          /\ jobs[lastCall.addr] = None

\* C10 witness: one address was registered and unregistered, another is registered.
C10_Witness ==
    /\ Count = 1
    /\ \E j \in JobIds : stopCalls[j] = 1
    /\ lastCall.op = "unregister" /\ lastCall.result = "ok"

\* C11: a register of an address that was registered and unregistered before
\* succeeds with a new job object. A LogTriggerJob's processed set holds only logs
\* that job itself executed: it is empty until a log is delivered to it, and a log
\* delivered to it is executed by it even when an earlier job of the address has
\* processed that log. A CustomLogicJob's lastProcessedBlock is 0 until its own
\* start() has fetched a height, and then is that height.
C11_ReregisterIndependent ==
    /\ (lastCall.op = "register" /\ lastCall.before[lastCall.addr] = None
          /\ \E i \in JobIds : target[i] = lastCall.addr /\ stopCalls[i] > 0) =>
          /\ lastCall.result = "ok"
          /\ \E j \in JobIds :
                /\ lastCall.constructed = {j} /\ jobs[lastCall.addr] = j
                /\ startCalls[j] = 1 /\ stopCalls[j] = 0
    /\ \A j \in JobIds :
          /\ \A e \in processedLogs[j] : performCalls[j][e] >= 1
          /\ (\A e \in Events : delivered[j][e] = 0) => processedLogs[j] = {}
          /\ \A e \in Events :
                (InFlightHandlers(j) = {} /\ delivered[j][e] >= 1) =>
                    performCalls[j][e] = 1 /\ e \in processedLogs[j]
          /\ startPc[j] # "done" => lastProcessedBlock[j] = 0
          /\ startPc[j] = "done" => lastProcessedBlock[j] = startHeight[j]

\* C11 witness: the second job of an address has executed and processed a log
\* that the first, unregistered job of that address had processed before.
C11_Witness ==
    \E e \in Events :
        /\ kind[1] = "log" /\ kind[2] = "log" /\ target[1] = target[2]
        /\ stopCalls[1] = 1 /\ jobs[target[2]] = 2
        /\ e \in processedLogs[1] /\ e \in processedLogs[2]
        /\ performCalls[2][e] = 1

\* C12: when checkLog fails with a fallback error, the handler calls checkUpkeep
\* with the encoding of the log's topics and data and makes no execute call in
\* that step; a handler awaiting checkUpkeep makes no further check call; and when
\* checkUpkeep answers (true, performData) the handler makes one performUpkeep call
\* with that performData, after which it only awaits the confirmation and ends.
C12_FallbackOneLegacyCheck ==
    [][\A j \in JobIds, s \in HandlerSlots :
          LET h == handler[j][s]
              h2 == handler'[j][s] IN
          /\ \A err \in Errors :
                (h.pc = "checkLog" /\ IsFallback(err) /\ HandlerProbeReject(j, s, err)) =>
                    /\ h2.pc = "checkUpkeep" /\ h2.log = h.log
                    /\ h2.arg = Encode(LogTopics(h.log), LogData(h.log))
                    /\ performCalls' = performCalls
          /\ h.pc = "checkUpkeep" => h2.pc \in {"checkUpkeep", "performUpkeep", "idle"}
          /\ \A d \in Data :
                (h.pc = "checkUpkeep" /\ HandlerCheckUpkeepResolve(j, s, TRUE, d)) =>
                    /\ h2.pc = "performUpkeep" /\ h2.log = h.log /\ h2.arg = <<d>>
                    /\ performCalls'[j][h.log] = performCalls[j][h.log] + 1
          /\ h.pc = "performUpkeep" => h2.pc \in {"performUpkeep", "wait", "idle"}
          /\ h.pc = "wait" => h2.pc \in {"wait", "idle"}]_vars

\* C12 witness: a handler awaits the fallback checkUpkeep call for a log, with the
\* payload that encodes that log's topics and data.
C12_Witness ==
    \E j \in JobIds, s \in HandlerSlots :
        /\ handler[j][s].pc = "checkUpkeep"
        /\ handler[j][s].log = "0xBB-1"
        /\ handler[j][s].arg = Encode(<<Id("Ev(uint256)"), "0xT2">>, "0x02")

\* C13: when checkLog fails with an error that is not a fallback error, the
\* handler ends in that step: it calls neither checkUpkeep nor performUpkeep, and
\* the processed set stays as it was.
C13_OtherErrorNoFallback ==
    [][\A j \in JobIds, s \in HandlerSlots, err \in Errors :
          (handler[j][s].pc = "checkLog" /\ ~IsFallback(err) /\ HandlerProbeReject(j, s, err)) =>
              /\ handler'[j][s] = IdleHandler
              /\ \A t \in HandlerSlots : t # s => handler'[j][t] = handler[j][t]
              /\ performCalls' = performCalls
              /\ processedLogs' = processedLogs]_vars

\* C13 witness: the one delivery of a log ended with a failed check: no handler
\* is pending, no performUpkeep call was made and the processed set is empty.
C13_Witness ==
    \E j \in JobIds, e \in Events :
        /\ lastHandler[j] = "failed"
        /\ delivered[j] = [x \in Events |-> IF x = e THEN 1 ELSE 0]
        /\ InFlightHandlers(j) = {}
        /\ performCalls[j][e] = 0
        /\ processedLogs[j] = {}

\* C14: a step in which an awaited call of a tick or of a log handler throws ends
\* that invocation (or, for a fallback error, goes on to checkUpkeep) and touches
\* nothing else: the timer, the subscription, the registry, the processed set,
\* every other pending invocation and every other job stay as they were, and the
\* executing flag is clear so that the next tick is admitted.
C14_FailureStaysInside ==
    [][\A j \in JobIds :
          /\ \A s \in TickSlots :
                TickReject(j, s) =>
                    /\ tick'[j][s] = IdleTick /\ ~isExecuting'[j]
                    /\ \A t \in TickSlots : t # s => tick'[j][t] = tick[j][t]
                    /\ \A i \in JobIds : i # j => tick'[i] = tick[i] /\ isExecuting'[i] = isExecuting[i]
                    /\ intervalId' = intervalId /\ startPc' = startPc
                    /\ lastProcessedBlock' = lastProcessedBlock
                    /\ regVars' = regVars /\ logVars' = logVars
          /\ \A s \in HandlerSlots :
                (HandlerReject(j, s) \/ \E err \in Errors : HandlerProbeReject(j, s, err)) =>
                    /\ handler'[j][s].pc \in {"idle", "checkUpkeep"}
                    /\ \A t \in HandlerSlots : t # s => handler'[j][t] = handler[j][t]
                    /\ \A i \in JobIds : i # j => handler'[i] = handler[i]
                    /\ subscribed' = subscribed /\ processedLogs' = processedLogs
                    /\ eventFilter' = eventFilter
                    /\ regVars' = regVars /\ customVars' = customVars]_vars

\* C14 witness: a cycle of the CustomLogicJob has failed and a later cycle of it
\* awaits the confirmation of its performUpkeep; the execute of one log has
\* failed in the LogTriggerJob and the handler that ended last has processed
\* the other log; timer and subscription are live.
C14_Witness ==
    /\ cycles[1].failed /\ intervalId[1]
    /\ \E s \in TickSlots : tick[1][s].pc = "wait"
    /\ subscribed[2] /\ lastHandler[2] = "confirmed"
    /\ delivered[2]["0xAA-0"] = 1 /\ performCalls[2]["0xAA-0"] = 1
    /\ processedLogs[2] = {"0xBB-1"}

\* C15: a CustomLogicJob has made as many performUpkeep calls as its checks
\* answered true, so none while all answers were false; an answer of false makes
\* no performUpkeep call; and when the first three checks answered false and the
\* fourth answers (true, data), that step makes the job's first and only
\* performUpkeep call, with data as its argument.
C15_ScenarioA ==
    /\ [](\A j \in JobIds : cycles[j].executes = cycles[j].yes)
    /\ [][\A j \in JobIds, s \in TickSlots, d \in Data :
            /\ TickCheckUpkeepResolve(j, s, FALSE, d) =>
                  cycles'[j].executes = cycles[j].executes /\ tick'[j][s] = IdleTick
            /\ (cycles[j].no = 3 /\ cycles[j].yes = 0 /\ TickCheckUpkeepResolve(j, s, TRUE, d)) =>
                  /\ cycles[j].executes = 0 /\ cycles'[j].executes = 1
                  /\ tick'[j][s] = [pc |-> "performUpkeep", data |-> d]]_vars

\* C15 witness: three checks answered false, the fourth answered (true, "d2"), and
\* the one performUpkeep call, made with "d2", awaits its confirmation.
C15_Witness ==
    \E j \in JobIds, s \in TickSlots :
        /\ cycles[j] = [no |-> 3, yes |-> 1, executes |-> 1, failed |-> FALSE]
        /\ tick[j][s] = [pc |-> "wait", data |-> "d2"]

\* The filter the options ask for: the emitter, the hash of the signature as topic
\* 0 and the configured topic filters as topics 1.. (a topic left out matches any).
ConfiguredFilter(o) ==
    [address |-> o.logEmitterAddress, topics |-> <<Id(o.logEventSignature)>> \o o.logTopicFilters]

\* C16 (as claimed): the filter of a LogTriggerJob just registered is the filter
\* its options ask for, and every log a LogTriggerJob handles carries, at positions
\* 1.., the topics of the job's configured logTopicFilters.
C16_FilterCarriesTopicFilters ==
    /\ (lastCall.op = "register" /\ lastCall.result = "ok" /\ lastCall.options.triggerType = "log") =>
          eventFilter[jobs[lastCall.addr]] = ConfiguredFilter(lastCall.options)
    /\ \A j \in JobIds, s \in HandlerSlots :
          handler[j][s].pc # "idle" =>
              \A i \in 1..Len(logTopicFilters[j]) :
                  /\ i + 1 <= Len(LogTopics(handler[j][s].log))
                  /\ LogTopics(handler[j][s].log)[i + 1] = logTopicFilters[j][i]

\* C17: after every step, every log in a job's processed set had performUpkeep
\* called for it by that job; the set changes only in the step in which a
\* handler's tx.wait() returns, and then by that handler's log; a step in which a
\* handler ends before it awaits the confirmation (its check answered false, or
\* a check or the submission threw) or in which the confirmation throws leaves
\* the set as it was.
C17_ProcessedOnlyAfterConfirmation ==
    [][\A j \in JobIds :
          /\ \A e \in processedLogs'[j] : performCalls'[j][e] >= 1
          /\ processedLogs'[j] # processedLogs[j] =>
                \E s \in HandlerSlots :
                    /\ handler[j][s].pc = "wait" /\ handler'[j][s].pc = "idle"
                    /\ lastHandler'[j] = "confirmed"
                    /\ processedLogs'[j] = processedLogs[j] \cup {handler[j][s].log}
          /\ \A s \in HandlerSlots :
                (handler[j][s].pc # "idle" /\ handler'[j][s].pc = "idle" /\ handler[j][s].pc # "wait") =>
                    processedLogs' = processedLogs
          /\ \A s \in HandlerSlots :
                (handler[j][s].pc = "wait" /\ HandlerReject(j, s)) => processedLogs' = processedLogs]_vars

\* C17 witness: one log was executed, confirmed and added to the set; the other
\* had performUpkeep called for it once and its handler ended last, by a call
\* that threw, leaving it outside the set.
C17_Witness ==
    \E j \in JobIds :
        /\ processedLogs[j] = {"0xAA-0"}
        /\ lastHandler[j] = "failed"
        /\ delivered[j]["0xBB-1"] = 1 /\ performCalls[j]["0xBB-1"] = 1
        /\ InFlightHandlers(j) = {}

\* C18: _isExecuting is set exactly while a cycle of the job is pending: from the
\* segment that requests getBlockNumber() until the cycle ends, however it ends.
C18_ExecutingWhileInFlight ==
    \A j \in JobIds :
        /\ isExecuting[j] <=> InFlightTicks(j) # {}
        /\ \A s \in TickSlots : tick[j][s].pc = "getBlockNumber" => isExecuting[j]

\* C18 witness: cycles of the job have ended by a call that threw, by an answer
\* of false and after an answer of true; none is pending and the flag is clear.
C18_Witness ==
    \E j \in JobIds :
        /\ cycles[j].failed /\ cycles[j].no >= 1 /\ cycles[j].yes >= 1
        /\ lastTick[j] = "admitted"
        /\ InFlightTicks(j) = {}
        /\ ~isExecuting[j]

\* C19: the step that stops a job leaves its pending cycles and handlers, its
\* executing flag and its processed set as they were; for a stopped job the
\* submission result and the confirmation of a pending performUpkeep can still
\* arrive; a confirmation that arrives ends the cycle with the flag clear, or adds
\* the handler's log to the processed set.
C19_StopDoesNotAbort ==
    /\ [][\A a \in Addr : (jobs[a] # None /\ UnregisterUpkeep(a)) =>
            /\ stopCalls'[jobs[a]] = stopCalls[jobs[a]] + 1
            /\ tick' = tick /\ isExecuting' = isExecuting
            /\ handler' = handler /\ processedLogs' = processedLogs]_vars
    /\ [](\A j \in JobIds : stopCalls[j] > 0 =>
            /\ \A s \in TickSlots :
                  /\ tick[j][s].pc = "performUpkeep" => ENABLED TickPerformUpkeepResolve(j, s)
                  /\ tick[j][s].pc = "wait" => ENABLED TickWaitResolve(j, s)
            /\ \A s \in HandlerSlots :
                  /\ handler[j][s].pc = "performUpkeep" => ENABLED HandlerPerformUpkeepResolve(j, s)
                  /\ handler[j][s].pc = "wait" => ENABLED HandlerWaitResolve(j, s))
    /\ [][\A j \in JobIds : stopCalls[j] > 0 =>
            /\ \A s \in TickSlots :
                  /\ TickPerformUpkeepResolve(j, s) => tick'[j][s].pc = "wait"
                  /\ TickWaitResolve(j, s) => tick'[j][s].pc = "idle" /\ ~isExecuting'[j]
            /\ \A s \in HandlerSlots :
                  /\ HandlerPerformUpkeepResolve(j, s) => handler'[j][s].pc = "wait"
                  /\ HandlerWaitResolve(j, s) =>
                        handler'[j][s].pc = "idle" /\ handler[j][s].log \in processedLogs'[j]]_vars

\* C19 witness: both jobs were stopped after they had started, with the timer
\* cleared and the subscription removed, and a cycle of the one and a handler of
\* the other, begun before the stop, await the confirmation of their performUpkeep.
C19_Witness ==
    /\ stopCalls[1] = 1 /\ startPc[1] = "done" /\ ~intervalId[1]
    /\ \E s \in TickSlots : tick[1][s].pc = "wait"
    /\ stopCalls[2] = 1 /\ ~subscribed[2]
    /\ \E s \in HandlerSlots : handler[2][s].pc = "wait"

\* A cycle or a handler of job i is pending: the job is suspended in an await.
Suspended(i) == InFlightTicks(i) # {} \/ InFlightHandlers(i) # {}

\* C20: while a job is suspended in an await, every other job goes on by its own
\* state alone: a tick of a job with a live timer and a clear flag is admitted, a
\* log that matches a subscribed job's filter is delivered to it, every pending
\* call of it can be answered, and a step of one job leaves the pending
\* invocations of every other job as they were.
C20_OtherJobsProgress ==
    /\ [](\A i \in JobIds, j \in JobIds : (i # j /\ Suspended(i)) =>
            /\ (intervalId[j] /\ ~isExecuting[j]) => ENABLED (Tick(j) /\ lastTick'[j] = "admitted")
            /\ \A e \in Events :
                  (subscribed[j] /\ Matches(eventFilter[j], e) /\ delivered[j][e] < MaxDeliveries
                     /\ InFlightHandlers(j) = {}) => ENABLED DeliverLog(j, e)
            /\ \A s \in TickSlots :
                  /\ (tick[j][s].pc = "getBlockNumber" /\ lastProcessedBlock[j] < MaxBlock) =>
                        ENABLED TickGetBlockNumberResolve(j, s, lastProcessedBlock[j] + 1)
                  /\ tick[j][s].pc = "checkUpkeep" => ENABLED TickCheckUpkeepResolve(j, s, TRUE, "d1")
                  /\ tick[j][s].pc = "performUpkeep" => ENABLED TickPerformUpkeepResolve(j, s)
                  /\ tick[j][s].pc = "wait" => ENABLED TickWaitResolve(j, s)
            /\ \A s \in HandlerSlots :
                  /\ handler[j][s].pc = "getBlock" => ENABLED HandlerGetBlockResolve(j, s)
                  /\ handler[j][s].pc = "checkLog" => ENABLED HandlerCheckLogResolve(j, s, TRUE, "d1")
                  /\ handler[j][s].pc = "performUpkeep" => ENABLED HandlerPerformUpkeepResolve(j, s)
                  /\ handler[j][s].pc = "wait" => ENABLED HandlerWaitResolve(j, s))
    /\ [][\A i \in JobIds :
            (tick'[i] # tick[i] \/ handler'[i] # handler[i]) =>
                \A j \in JobIds : j # i =>
                    tick'[j] = tick[j] /\ handler'[j] = handler[j] /\ isExecuting'[j] = isExecuting[j]]_vars

\* C20 witness: the handler of the LogTriggerJob awaits the confirmation for the
\* only log delivered to it, and the CustomLogicJob has run a whole cycle, its
\* check answered true and its performUpkeep call made, and is idle again.
C20_Witness ==
    /\ \E s \in HandlerSlots : handler[2][s].pc = "wait"
    /\ delivered[2]["0xAA-0"] = 1 /\ delivered[2]["0xBB-1"] = 0
    /\ cycles[1] = [no |-> 0, yes |-> 1, executes |-> 1, failed |-> FALSE]
    /\ InFlightTicks(1) = {} /\ ~isExecuting[1] /\ lastTick[1] = "admitted"

\* C26: a timer callback that finds _isExecuting set returns at once: it requests
\* no chain-client call, leaves _lastProcessedBlock, _isExecuting and the pending
\* cycle as they are, and leaves nothing behind that a later step could run for it.
C26_BusyTickDropped ==
    [][\A j \in JobIds :
          (isExecuting[j] /\ Tick(j)) =>
              /\ tick' = tick
              /\ lastProcessedBlock' = lastProcessedBlock
              /\ isExecuting' = isExecuting
              /\ <<regVars, customVars, logVars>>' = <<regVars, customVars, logVars>>
              /\ checkedAt' = checkedAt /\ cycles' = cycles
              /\ lastTick'[j] = "dropped"]_vars

\* C26 witness: the last tick of a job was dropped while its one cycle awaits
\* checkUpkeep.
C26_Witness ==
    \E j \in JobIds :
        /\ lastTick[j] = "dropped"
        /\ isExecuting[j]
        /\ Cardinality(InFlightTicks(j)) = 1
        /\ \E s \in TickSlots : tick[j][s].pc = "checkUpkeep"

\* C27: a cycle that fetches a height not above _lastProcessedBlock ends there:
\* no checkUpkeep and no performUpkeep call, _lastProcessedBlock unchanged,
\* _isExecuting false.
C27_NoNewBlockNoCheck ==
    [][\A j \in JobIds, s \in TickSlots, b \in Blocks :
          (b <= lastProcessedBlock[j] /\ TickGetBlockNumberResolve(j, s, b)) =>
              /\ tick'[j][s] = IdleTick
              /\ \A t \in TickSlots : tick'[j][t].pc \notin {"checkUpkeep", "performUpkeep", "wait"}
              /\ checkedAt' = checkedAt /\ cycles' = cycles
              /\ lastProcessedBlock' = lastProcessedBlock
              /\ ~isExecuting'[j]]_vars

\* C27 witness: a job whose only admitted cycles ended without a check and
\* without a failure, at a height above zero.
C27_Witness ==
    \E j \in JobIds :
        /\ lastTick[j] = "admitted"
        /\ InFlightTicks(j) = {} /\ ~isExecuting[j]
        /\ checkedAt[j] = {} /\ ~cycles[j].failed
        /\ lastProcessedBlock[j] = 2

\* C28: every checkUpkeep call of a job is made with a _lastProcessedBlock the job
\* never called checkUpkeep with before; a cycle that finds the height advanced by
\* several makes the one call for the fetched height and none for those between.
C28_OneCheckPerHeight ==
    [][\A j \in JobIds :
          IF \E s \in TickSlots : tick[j][s].pc = "getBlockNumber" /\ tick'[j][s].pc = "checkUpkeep"
          THEN /\ lastProcessedBlock'[j] \notin checkedAt[j]
               /\ checkedAt'[j] = checkedAt[j] \cup {lastProcessedBlock'[j]}
               /\ Cardinality({s \in TickSlots : tick'[j][s].pc = "checkUpkeep"}) = 1
          ELSE /\ checkedAt'[j] = checkedAt[j]
               /\ \A s \in TickSlots : tick'[j][s].pc = "checkUpkeep" => tick[j][s].pc = "checkUpkeep"]_vars

\* C28 witness: a job started at height 0 has called checkUpkeep for the heights 1
\* and 3 and got both answers; height 2 was skipped.
C28_Witness ==
    \E j \in JobIds :
        /\ startHeight[j] = 0
        /\ checkedAt[j] = {1, 3}
        /\ cycles[j].no + cycles[j].yes = 2
        /\ InFlightTicks(j) = {}

\* C29: _lastProcessedBlock already holds the height while checkUpkeep,
\* performUpkeep or the confirmation is awaited, a call that throws then leaves it
\* there, and after a failure a check begins only for a height above every height
\* checked before.
C29_FailedHeightNotRetried ==
    [][\A j \in JobIds, s \in TickSlots :
          /\ tick'[j][s].pc \in {"checkUpkeep", "performUpkeep", "wait"} =>
                 /\ lastProcessedBlock'[j] \in checkedAt'[j]
                 /\ \A h \in checkedAt'[j] : h <= lastProcessedBlock'[j]
          /\ (tick[j][s].pc \in {"checkUpkeep", "performUpkeep", "wait"} /\ TickReject(j, s)) =>
                 /\ lastProcessedBlock'[j] = lastProcessedBlock[j]
                 /\ lastProcessedBlock[j] \in checkedAt[j]
                 /\ tick'[j][s] = IdleTick
          /\ (cycles[j].failed /\ tick[j][s].pc = "getBlockNumber" /\ tick'[j][s].pc = "checkUpkeep") =>
                 \A h \in checkedAt[j] : lastProcessedBlock'[j] > h]_vars

\* C29 witness: the check for one height threw, and the job now awaits the check
\* for a later height.
C29_Witness ==
    \E j \in JobIds :
        /\ cycles[j].failed
        /\ cycles[j].no + cycles[j].yes = 0
        /\ Cardinality(checkedAt[j]) = 2
        /\ \E s \in TickSlots : tick[j][s].pc = "checkUpkeep"
        /\ \A h \in checkedAt[j] : h <= lastProcessedBlock[j]

\* C30: a log delivered to a LogTriggerJob whose id is in _processedLogs is
\* dropped: no handler is begun for it, so no chain-client call is requested, and
\* _processedLogs and every other field of every job stay as they are.
C30_ProcessedLogDropped ==
    [][\A j \in JobIds, e \in Events :
          (e \in processedLogs[j] /\ DeliverLog(j, e)) =>
              /\ handler' = handler
              /\ processedLogs' = processedLogs
              /\ performCalls' = performCalls
              /\ <<regVars, customVars, logVars>>' = <<regVars, customVars, logVars>>]_vars

\* C30 witness: a log was delivered twice to a job, one delivery at a time; the job
\* executed it once and holds it in its processed set, and no handler is pending.
C30_Witness ==
    \E j \in JobIds, e \in Events :
        /\ delivered[j][e] = 2
        /\ performCalls[j][e] = 1
        /\ processedLogs[j] = {e}
        /\ InFlightHandlers(j) = {}
        /\ subscribed[j]

\* What C21 calls a malformed register body: name or upkeepContract missing or
\* empty, a triggerType other than 'log' and 'custom', a gasLimit that is no
\* number or not positive, or a log upkeep without emitter address or event signature.
Malformed(body) ==
    \/ body.name \in {Undefined, Str("")}
    \/ body.upkeepContract \in {Undefined, Str("")}
    \/ body.triggerType \notin {Str("log"), Str("custom")}
    \/ body.gasLimit.type # "number" \/ body.gasLimit.num <= 0
    \/ /\ body.triggerType = Str("log")
       /\ \/ body.logEmitterAddress \in {Undefined, Str("")}
          \/ body.logEventSignature \in {Undefined, Str("")}

\* C21: a register request with a malformed body is answered 400 without a call
\* of the registry: the registry's entries and count, every job and the record of
\* the last registry call stay as they are, and no job is constructed or started.
C21_MalformedRegisterRejected ==
    [][\A body \in Bodies :
          (Malformed(body) /\ PostRegister(body)) =>
              /\ response'.route = "register" /\ response'.status = 400
              /\ response'.errors # <<>>
              /\ jobs' = jobs /\ Count' = Count
              /\ lastCall' = lastCall
              /\ startCalls' = startCalls /\ nextJob' = nextJob
              /\ <<regVars, customVars, logVars>>' = <<regVars, customVars, logVars>>]_vars

\* C21 witness: with one upkeep registered, a log register request for another
\* address that lacks the emitter address has been answered 400; the registry
\* still holds the one entry and its last call is the earlier register.
C21_Witness ==
    /\ response.route = "register" /\ response.status = 400
    /\ response.errors = <<"logEmitterAddress is required (string address) for triggerType=log">>
    /\ Count = 1 /\ nextJob = 2
    /\ lastCall.op = "register" /\ lastCall.result = "ok"

\* C22: LocalProvider.createUpkeep posts its options to /register and, when the
\* simulator accepts them, returns the options' upkeepContract, which the registry
\* then holds a job for; cancelUpkeep(upkeepId) posts that address to /unregister;
\* and createUpkeep followed by cancelUpkeep of the returned id leaves the registry
\* with the addresses it held before createUpkeep.
C22_LocalRoundTrip ==
    /\ local.pc \in {"register", "registerAnswered"} => local.body.object
    /\ local.pc = "created" =>
          /\ local.upkeepId = local.body.upkeepContract.str
          /\ lastCall.op = "register" /\ lastCall.result = "ok" /\ lastCall.addr = local.upkeepId
          /\ RegisteredAddresses = local.before \cup {local.upkeepId}
          /\ local.upkeepId \notin local.before
    /\ (local.pc \in {"unregister", "unregisterAnswered"} /\ local.roundTrip) =>
          local.sent = Str(local.upkeepId)
    /\ (local.pc = "unregisterAnswered" /\ local.roundTrip) =>
          /\ response.route = "unregister" /\ response.status = 200
          /\ lastCall.op = "unregister" /\ lastCall.addr = local.upkeepId
    /\ (local.pc = "cancelled" /\ local.roundTrip) => RegisteredAddresses = local.before

\* C22 witness: with another upkeep registered, createUpkeep returned "0xB" and
\* cancelUpkeep("0xB") has returned; the registry holds the other upkeep only.
C22_Witness ==
    /\ local.pc = "cancelled" /\ local.roundTrip
    /\ local.upkeepId = "0xB"
    /\ local.before = {"0xA"}
    /\ RegisteredAddresses = {"0xA"}

\* C23: once the Automation constructor has run, it has called one provider
\* constructor and no other: ChainlinkProvider's when the config gives no mode or
\* 'chainlink', LocalProvider's when it gives 'local'; for any other mode it has
\* called none and has thrown 'Mode "<mode>" is not yet supported.'.
C23_OneProviderSelected ==
    automation.pc \in {"constructed", "threw"} =>
        /\ automation.mode \in {Undefined, Str("chainlink")} =>
              /\ automation.calls = <<"ChainlinkProvider">>
              /\ automation.pc = "constructed" => automation.provider = "ChainlinkProvider"
        /\ automation.mode = Str("local") =>
              /\ automation.calls = <<"LocalProvider">>
              /\ automation.pc = "constructed" /\ automation.provider = "LocalProvider"
        /\ automation.mode \notin {Undefined, Str("chainlink"), Str("local")} =>
              /\ automation.calls = <<>> /\ automation.provider = "-"
              /\ automation.pc = "threw"
              /\ automation.thrown = "Mode \"" \o TemplateText(automation.mode) \o "\" is not yet supported."
        /\ Len(automation.calls) <= 1

\* C23 witness: a config without a mode has given a ChainlinkProvider.
C23_Witness ==
    /\ automation.pc = "constructed"
    /\ automation.mode = Undefined
    /\ automation.provider = "ChainlinkProvider"

\* The revert data an error value carries: that of its data field; failing that,
\* that of the error nested under .error; failing that, that of its JSON body.
RECURSIVE RevertDataIn(_)
RevertDataIn(error) ==
    IF error.type # "object"
    THEN Undefined
    ELSE LET nested == IF error.error.type = "object" THEN RevertDataIn(error.error) ELSE Undefined
             inBody == IF error.body.type = "string" THEN JsonErrorData(error.body.str) ELSE Undefined IN
         IF error.data.type = "string" THEN error.data
         ELSE IF nested.type = "string" THEN nested
         ELSE IF inBody.type = "string" THEN inBody
         ELSE Undefined

\* C25: _handleContractError throws for every error value, and the message is
\* 'Error during <context>: ' followed by the text of the selector when the revert
\* data the error carries (in its data, nested under .error, or in its JSON body)
\* is a known selector, otherwise by the error's reason, otherwise by its message,
\* otherwise by 'An unknown error occurred'.
C25_ErrorMessageMapped ==
    handled.context # "-" =>
        LET error == handled.error
            found == RevertDataIn(error)
            prefix == "Error during " \o handled.context \o ": " IN
        /\ ENABLED Handle \/ handled.thrown # ""
        /\ handled.thrown # "" =>
              IF found.type = "string" /\ found.str \in DOMAIN REVERT_SELECTORS
              THEN handled.thrown = prefix \o REVERT_SELECTORS[found.str]
              ELSE IF error.type = "object" /\ error.reason.type = "string"
              THEN handled.thrown = prefix \o error.reason.str
              ELSE IF error.type = "object" /\ error.message.type = "string"
              THEN handled.thrown = prefix \o error.message.str
              ELSE handled.thrown = prefix \o "An unknown error occurred"

\* The places of the trace of the createUpkeep call that hold the given call.
Places(call) == {i \in 1..Len(chainlink.trace) : chainlink.trace[i].call = call}

\* C24: the first thing createUpkeep submits is the LINK approve for the registrar
\* with the parsed initial funds; registerUpkeep is submitted only after the
\* approval was confirmed, so never when approve or its confirmation failed;
\* createUpkeep returns the id of the first UpkeepRegistered log of the registry
\* address in the registration receipt, and fails when the receipt has none. Once
\* createUpkeep has ended it submits nothing more.
C24_ApproveThenRegister ==
    /\ [](/\ chainlink.trace # <<>> =>
                chainlink.trace[1] =
                    Event("approve", <<RegistrarAddress, ParseEther(chainlink.options.initialFunds).wei>>)
          /\ Cardinality(Places("approve")) <= 1 /\ Cardinality(Places("registerUpkeep")) <= 1
          /\ \A i \in Places("registerUpkeep") :
                \E k \in Places("approve confirmed") : k < i /\ \E a \in Places("approve") : a < k
          /\ chainlink.pc = "returned" =>
                \E i \in 1..Len(chainlink.receipt) :
                    /\ chainlink.receipt[i].address = RegistryAddress
                    /\ chainlink.receipt[i].name = "UpkeepRegistered"
                    /\ chainlink.upkeepId = ToString(chainlink.receipt[i].id)
                    /\ \A k \in 1..(i - 1) :
                          ~(chainlink.receipt[k].address = RegistryAddress
                              /\ chainlink.receipt[k].name = "UpkeepRegistered")
          /\ chainlink.pc = "returned" => Places("registerTx.wait") # {}
          /\ chainlink.pc = "threw" => chainlink.thrown # "" /\ chainlink.upkeepId = "")
    /\ [][/\ chainlink.pc \in {"returned", "threw"} => chainlink' = chainlink
          /\ (chainlink.pc = "registerWait" /\ chainlink'.pc # "registerWait"
                /\ ~\E i \in 1..Len(chainlink'.receipt) :
                       /\ chainlink'.receipt[i].address = RegistryAddress
                       /\ chainlink'.receipt[i].name = "UpkeepRegistered") =>
                chainlink'.pc = "threw"]_vars

\* C24 witness: createUpkeep has returned "42" from a receipt whose first log is
\* an UpkeepRegistered event of another contract and whose second is the registry's.
C24_Witness ==
    /\ chainlink.pc = "returned"
    /\ chainlink.upkeepId = "42"
    /\ Len(chainlink.receipt) = 2
    /\ chainlink.receipt[1].address # RegistryAddress /\ chainlink.receipt[1].name = "UpkeepRegistered"
    /\ Len(chainlink.trace) = 6

\* The cycle of job j awaits the confirmation of its performUpkeep.
TickHeld(j) == \E s \in TickSlots : tick[j][s].pc = "wait"

\* The handler of job j in slot s awaits the confirmation for log e.
HandlerHeld(j, s, e) == handler[j][s].pc = "wait" /\ handler[j][s].log = e

\* C31: while the confirmation of a CustomLogicJob's cycle does not arrive, the
\* job's _isExecuting stays set, its cycle stays where it is, every tick of it is
\* dropped, and it makes no further checkUpkeep or performUpkeep call; while the
\* confirmation for one log does not arrive at a LogTriggerJob, only that handler
\* is held: another log is still delivered to a new handler of the job, every
\* pending call of the other handler can be answered, and the other handler's
\* confirmation adds its log to the processed set and leaves the held one as it is.
C31_HungWaitHoldsOnlyItsOwner ==
    /\ [][\A j \in JobIds : TickHeld(j) =>
            /\ TickHeld(j)' /\ isExecuting'[j] /\ tick'[j] = tick[j]
            /\ Tick(j) => lastTick'[j] = "dropped"
            /\ cycles'[j] = cycles[j] /\ checkedAt'[j] = checkedAt[j]]_vars
    /\ [](\A j \in JobIds : TickHeld(j) => isExecuting[j] /\ ENABLED Tick(j))
    /\ [](\A j \in JobIds, s \in HandlerSlots : HandlerHeld(j, s, HungLog) =>
            /\ \A e \in Events \ {HungLog} :
                  (subscribed[j] /\ Matches(eventFilter[j], e) /\ delivered[j][e] = 0) =>
                      ENABLED (DeliverLog(j, e) /\ \E t \in HandlerSlots : handler'[j][t].log = e)
            /\ \A t \in HandlerSlots \ {s} :
                  /\ handler[j][t].pc = "getBlock" => ENABLED HandlerGetBlockResolve(j, t)
                  /\ handler[j][t].pc = "checkLog" => ENABLED HandlerCheckLogResolve(j, t, TRUE, "d1")
                  /\ handler[j][t].pc = "performUpkeep" => ENABLED HandlerPerformUpkeepResolve(j, t)
                  /\ handler[j][t].pc = "wait" => ENABLED HandlerWaitResolve(j, t))
    /\ [][\A j \in JobIds, s \in HandlerSlots : HandlerHeld(j, s, HungLog) =>
            /\ handler'[j][s] = handler[j][s]
            /\ \A t \in HandlerSlots \ {s} :
                  /\ HandlerCheckLogResolve(j, t, TRUE, "d1") =>
                        /\ handler'[j][t].pc = "performUpkeep"
                        /\ performCalls'[j][handler[j][t].log] = performCalls[j][handler[j][t].log] + 1
                  /\ HandlerWaitResolve(j, t) => handler[j][t].log \in processedLogs'[j]]_vars

\* C31 witness: the CustomLogicJob's cycle awaits its confirmation and the last
\* tick was dropped; the LogTriggerJob's handler for HungLog awaits its
\* confirmation while the other log was checked, executed once and processed.
C31_Witness ==
    /\ TickHeld(1) /\ isExecuting[1] /\ lastTick[1] = "dropped"
    /\ cycles[1].executes = 1
    /\ \E s \in HandlerSlots : HandlerHeld(2, s, HungLog)
    /\ performCalls[2]["0xBB-1"] = 1 /\ "0xBB-1" \in processedLogs[2]

\* The logs that match the filter of job j.
Matching(j) == {e \in Events : Matches(eventFilter[j], e)}

\* C32: of two distinct logs delivered to one LogTriggerJob, with every check
\* answered true and every transaction confirmed, each is executed at most once
\* while the handlers run and exactly once when both have ended, and then both
\* ids are in the processed set, in whatever order the handlers' calls complete;
\* the second log's handler does not wait for the first: it starts while the
\* other is pending, each of its pending calls can be answered then, and a step
\* of one handler leaves the other as it was.
C32_TwoLogsBothExecutedOnce ==
    /\ [](\A j \in JobIds : \A e \in Events : performCalls[j][e] <= 1)
    /\ [](\A j \in JobIds :
            (kind[j] = "log" /\ InFlightHandlers(j) = {} /\ \A e \in Matching(j) : delivered[j][e] = 1) =>
                /\ processedLogs[j] = Matching(j)
                /\ \A e \in Matching(j) : performCalls[j][e] = 1)
    /\ [](\A j \in JobIds, s \in HandlerSlots : handler[j][s].pc # "idle" =>
            /\ \A e \in Matching(j) : (subscribed[j] /\ delivered[j][e] = 0) =>
                  ENABLED (DeliverLog(j, e) /\ \E t \in HandlerSlots \ {s} :
                              handler'[j][t].log = e /\ handler'[j][t].pc = "getBlock")
            /\ \A t \in HandlerSlots \ {s} :
                  /\ handler[j][t].pc = "getBlock" => ENABLED HandlerGetBlockResolve(j, t)
                  /\ handler[j][t].pc = "checkLog" => ENABLED HandlerCheckLogResolve(j, t, TRUE, "d1")
                  /\ handler[j][t].pc = "checkUpkeep" => ENABLED HandlerCheckUpkeepResolve(j, t, TRUE, "d1")
                  /\ handler[j][t].pc = "performUpkeep" => ENABLED HandlerPerformUpkeepResolve(j, t)
                  /\ handler[j][t].pc = "wait" => ENABLED HandlerWaitResolve(j, t))
    /\ [][\A j \in JobIds, s \in HandlerSlots :
            (handler[j][s].pc # "idle" /\ handler'[j][s] # handler[j][s]) =>
                \A t \in HandlerSlots \ {s} : handler'[j][t] = handler[j][t]]_vars

\* C32 witness: the log delivered first is still in the first slot, its block
\* not yet fetched, and the log delivered after it has been checked, executed
\* once and confirmed, and is in the processed set.
C32_Witness ==
    /\ handler[1][1].pc = "getBlock" /\ handler[1][1].log = "0xAA-0"
    /\ handler[1][2].pc = "idle"
    /\ delivered[1]["0xBB-1"] = 1 /\ performCalls[1]["0xBB-1"] = 1
    /\ processedLogs[1] = {"0xBB-1"} /\ lastHandler[1] = "confirmed"

\* C33: a handler calls the legacy checkUpkeep only from the checkLog call of the
\* same delivery, when that call failed with the unknown-function error; a
\* failure of getBlock, whatever its code or message, ends the handler with no
\* checkUpkeep and no performUpkeep call.
C33_LegacyOnlyAfterModernFailed ==
    [][\A j \in JobIds, s \in HandlerSlots :
          /\ (handler'[j][s].pc = "checkUpkeep" /\ handler[j][s].pc # "checkUpkeep") =>
                /\ handler[j][s].pc = "checkLog"
                /\ \E err \in Errors : IsFallback(err) /\ HandlerProbeReject(j, s, err)
          /\ \A err \in Errors : (handler[j][s].pc = "getBlock" /\ HandlerProbeReject(j, s, err)) =>
                /\ handler'[j][s] = IdleHandler
                /\ performCalls' = performCalls]_vars

\* C34: the job does not remember a target's convention. A delivery that is not
\* dropped starts at getBlock; when the block arrives checkLog is called with
\* the log struct, also after earlier deliveries fell back; checkLog is called
\* from nowhere else, so once per delivery; checkUpkeep is called only from a
\* failed checkLog, so after it and at most once; and no later call of the
\* handler leads back to either check.
C34_ModernCheckFirstEveryDelivery ==
    [][\A j \in JobIds, s \in HandlerSlots :
          /\ HandlerGetBlockResolve(j, s) =>
                /\ handler'[j][s].pc = "checkLog"
                /\ handler'[j][s].arg = LogStruct(handler[j][s].log)
          /\ (handler'[j][s].pc = "getBlock" /\ handler[j][s].pc # "getBlock") =>
                /\ handler[j][s].pc = "idle"
                /\ handler'[j][s].log \notin processedLogs[j]
                /\ delivered'[j][handler'[j][s].log] = delivered[j][handler'[j][s].log] + 1
          /\ (handler'[j][s].pc = "checkLog" /\ handler[j][s].pc # "checkLog") =>
                handler[j][s].pc = "getBlock"
          /\ (handler'[j][s].pc = "checkUpkeep" /\ handler[j][s].pc # "checkUpkeep") =>
                /\ handler[j][s].pc = "checkLog"
                /\ handler'[j][s].arg = CheckData(handler[j][s].log)
          /\ (handler[j][s].pc = "checkUpkeep" /\ handler'[j][s] # handler[j][s]) =>
                handler'[j][s].pc \in {"performUpkeep", "idle"}
          /\ (handler[j][s].pc = "performUpkeep" /\ handler'[j][s] # handler[j][s]) =>
                handler'[j][s].pc \in {"wait", "idle"}
          /\ (handler[j][s].pc = "wait" /\ handler'[j][s] # handler[j][s]) =>
                handler'[j][s].pc = "idle"]_vars

\* C34 witness: a log was executed and processed, through the fallback as the
\* target has no checkLog, and for the next log delivered to the job checkLog is
\* called again with that log's struct.
C34_Witness ==
    /\ processedLogs[1] = {"0xAA-0"} /\ performCalls[1]["0xAA-0"] = 1
    /\ delivered[1]["0xBB-1"] = 1
    /\ \E s \in HandlerSlots :
          /\ handler[1][s].pc = "checkLog" /\ handler[1][s].log = "0xBB-1"
          /\ handler[1][s].arg = LogStruct("0xBB-1")

\* C35: in the block-event CustomLogicJob, whatever the interleaving of the
\* 'block' events and of the completions of the handler's calls, at most one
\* invocation of _onNewBlock has a performUpkeep submitted or awaiting its
\* confirmation.
C35_OnePerformUpkeepInFlight ==
    Cardinality(Pending({"performUpkeep", "wait"})) <= 1

\* C36: a CustomLogicJob calls checkUpkeep only with _lastProcessedBlock above
\* the height start() recorded; its timer is set, and so a tick runs, only once
\* start() has recorded that height; the step that makes the first check is the
\* return of a tick's getBlockNumber() with a height above the recorded one.
C36_NoCheckAtOrBelowStartHeight ==
    /\ [](\A j \in JobIds :
            /\ \A b \in checkedAt[j] : b > startHeight[j]
            /\ lastProcessedBlock[j] >= startHeight[j]
            /\ (intervalId[j] \/ InFlightTicks(j) # {} \/ checkedAt[j] # {} \/ lastTick[j] # "none") =>
                  startPc[j] = "done")
    /\ [][\A j \in JobIds :
            /\ Tick(j) => startPc[j] = "done" /\ lastProcessedBlock[j] >= startHeight[j]
            /\ (checkedAt[j] = {} /\ checkedAt'[j] # {}) =>
                  \E s \in TickSlots, b \in Blocks :
                      /\ b > startHeight[j] /\ lastProcessedBlock[j] = startHeight[j]
                      /\ TickGetBlockNumberResolve(j, s, b)]_vars

\* C36 witness: start() recorded height 2, a tick that found the chain no higher
\* ended without a check, and the only check was made at height 3.
C36_Witness ==
    /\ startHeight[1] = 2 /\ startPc[1] = "done"
    /\ checkedAt[1] = {3} /\ lastProcessedBlock[1] = 3
    /\ cycles[1].yes = 1 /\ \E s \in TickSlots : tick[1][s].pc = "performUpkeep"

\* The addresses the registry holds an entry for in the map m.
Held(m) == {a \in Addr : m[a] # None}

C38_RegisteredJobStartsWatching ==
    \A j \in JobIds :
        (kind[j] = "custom" /\ jobs[target[j]] = j) ~>
            (intervalId[j] \/ (kind[j] = "custom" /\ jobs[target[j]] # j))

\* The cycles of CustomLogicJobs for address a whose performUpkeep transaction
\* is submitted or awaits its confirmation.
ExecutesInFlight(a) ==
    {<<j, s>> \in JobIds \X TickSlots :
        kind[j] = "custom" /\ target[j] = a /\ tick[j][s].pc \in {"performUpkeep", "wait"}}

\* C39: for every address, at most one performUpkeep of the CustomLogicJobs
\* constructed for it is in flight at any time, also across an unregister made
\* while a cycle is in flight and a register that follows it.
C39_OneExecutePerAddress ==
    \A a \in Addr : Cardinality(ExecutesInFlight(a)) <= 1

====
